---- MODULE Spec2Model ----
(***************************************************************************)
(* Reactive safety/control core of the safety_monitor_kph vehicle apps:    *)
(*   - AutoLockApp (autolock_vapp.py): hysteresis lock/unlock state        *)
(*     machine with a pending-lock latch, fed by Vehicle.Speed             *)
(*     notifications and by the aggregate door status on ext/safety/door.  *)
(*   - the debounce gate (_tick in safety_vapp.py, SafetyMonitor._update   *)
(*     in safety/monitor.py).                                              *)
(*   - SafetyApp (safety_vapp.py): evaluation of speed, doors and belts    *)
(*     and the alerts published on ext/safety/door, ext/safety/seatbelt.   *)
(*   - child mode: ChildLockController (childlock_vapp_main.py) and        *)
(*     ChildModeController (childlock_vapp.py).                            *)
(* Speeds are whole km/h.  Python None is modelled by NoValue for speeds   *)
(* and by the string "None" for _locked_state.                             *)
(***************************************************************************)
EXTENDS Integers, Sequences, FiniteSets, TLC

\* ---------------------------------------------------------------------------
\* Configuration of autolock_vapp.py
LOCK_ABOVE_KPH == 5
UNLOCK_BELOW_KPH == 3
TOPIC_LOCK_CMD == "vehicle/lockDoors"
TOPIC_UNLOCK_CMD == "vehicle/unlockDoors"
TOPIC_CFG_STATE == "ext/safety/config/autolock"

\* Bounds of the model
MaxSpeed == 6
MaxInbox == 1
MaxDebounce == 3
MaxTicks == 6
MaxEvals == 7

NoValue == -1

\* Speed values fed to the controller: one below UNLOCK_BELOW_KPH, both
\* thresholds, the dead band between them, and those above LOCK_ABOVE_KPH.
Speeds == (UNLOCK_BELOW_KPH - 1)..MaxSpeed

\* Payloads on ext/safety/door: {"anyOpen": true}, {"anyOpen": false}, a JSON
\* object without anyOpen, and text that json.loads or data.get rejects.
DoorPayloads == {"open", "closed", "no_anyOpen", "malformed"}

\* Payloads on safety/config/autolock/set.
CfgPayloads == {"true", "false", "invalid"}

VARIABLES
    \* AutoLockApp fields
    enabled, locked_state, pending_lock, any_door_open,
    \* STATE_FILE content: "absent", "true" or "false"
    stateFile,
    \* the data broker's current Vehicle.Speed, the notifications of the speed
    \* subscription not yet delivered, the door messages not yet delivered
    vehicleSpeed, speedInbox, doorInbox,
    \* what the step just taken published, and what that step was
    out, ev,
    \* observers of the AutoLock run (history only, never read by the handlers)
    phase, locks, unlocks, armed, slowed, seen_above, race,
    \* observers of the controller's lifetime: the value the last config command
    \* that changed enabled gave it ("None" if none since construction; in the
    \* state a restart leads to, still that of the lifetime just ended), and
    \* whether this controller has published a Lock, and whether the last door
    \* event it handled could not read the live speed ("skipped"), or was
    \* followed by an event that could decide ("retaken")
    changed_to, ever_locked, skip,
    \* debounce gates and their observers
    debounce_count, st, mon, cond, ret, mret, was_active, run, prev_tr, ticks,
    \* the gate of SafetyLogic (mqtt/mqtt_app.py) and what its tick returned
    lg, lret,
    \* SafetyApp fields
    speed_kph, doors_open, belts_fastened, sb_state, door_state,
    last_open_doors, last_unfastened, last_moving,
    \* what the SafetyApp handler just run published, and what that handler was
    pub, sev,
    \* observers of the SafetyApp run: handlers run so far, whether a speed
    \* > threshold_kph was ever received, the number of consecutive evaluations
    \* (counted up to debounce_count) that saw speed <= threshold_kph, and the
    \* sets carried by the latest payload on ext/safety/door, ext/safety/seatbelt
    evals, ever_moved, still_run, shown_doors, shown_belts,
    \* ChildLockController.child_mode_enabled and what its handler just run
    \* published; ChildModeController._enabled and what its method just called
    \* published; the call just made
    child_mode_enabled, cout, cm_enabled, cm_out, cev,
    \* ChildLockController's snapshot of the latest safety sample
    last_speed_kph, cl_moving, cl_any_door_open, cl_any_unfastened,
    \* the latest child_mode_activated / child_mode_deactivated event of each
    last_mode_event, cm_last_event,
    \* the number, counted up to 2, of consecutive safety samples that each
    \* published a child_mode_speed_exceeded event, and of those that each
    \* published a child_mode_unfastened_seatbelt event
    exceeded_run, unfastened_run,
    \* the messages on safety/config/autolock/set that the broker has not yet
    \* delivered to AutoLockApp; whether the enable message of the current
    \* child mode is on its way ("sent") or has been handled ("handled");
    \* child_lock_threshold_kph of the ChildModeConfig the ChildModeController
    \* was constructed with
    cfgInbox, forced, cm_child_threshold,
    \* where the AutoLock handlers stand when they run as tasks that yield at
    \* their awaits: on_door_status ("idle", "read" while Vehicle.Speed.get()
    \* is awaited, "publish" while _publish_lock is awaited) and
    \* _on_speed_changed ("idle", "lock" or "unlock" while the publish is
    \* awaited); and the number, counted up to 2, of Lock commands published
    \* since the doors were last reported closed after having been open
    dpc, spc, close_locks,
    \* the calls of _set_child_mode in progress, one per thread: its position
    \* ("idle", "assign" after the comparison of line 84, "publish" after the
    \* assignment of line 88) and its argument
    calls,
    \* no_child_counter of the presence-detector loop, and the number, counted
    \* up to DEBOUNCE_THRESHOLD, of no-child detections in a row since child
    \* mode was last switched on
    no_child_counter, no_child_run

alVars == <<enabled, locked_state, pending_lock, any_door_open, stateFile,
            vehicleSpeed, speedInbox, doorInbox, out, ev>>
obsVars == <<phase, locks, unlocks, armed, slowed, seen_above, race>>
dbVars == <<debounce_count, st, mon, cond, ret, mret, was_active, run, prev_tr, ticks,
            lg, lret>>
lifeVars == <<changed_to, ever_locked, skip>>
sfVars == <<speed_kph, doors_open, belts_fastened, sb_state, door_state,
            last_open_doors, last_unfastened, last_moving, pub, sev>>
sfObsVars == <<evals, ever_moved, still_run, shown_doors, shown_belts>>
snapVars == <<last_speed_kph, cl_moving, cl_any_door_open, cl_any_unfastened>>
clVars == <<child_mode_enabled, cout, cm_enabled, cm_out, cev, snapVars>>
clObsVars == <<last_mode_event, cm_last_event, exceeded_run, unfastened_run>>
linkVars == <<cfgInbox, forced, cm_child_threshold>>
taskVars == <<dpc, spc, close_locks, calls, no_child_counter, no_child_run>>
vars == <<alVars, obsVars, dbVars, lifeVars, sfVars, sfObsVars, clVars, clObsVars,
          linkVars, taskVars>>

\* ---------------------------------------------------------------------------
\* Published events
LockCmd == [topic |-> TOPIC_LOCK_CMD, payload |-> "lock"]
UnlockCmd == [topic |-> TOPIC_UNLOCK_CMD, payload |-> "unlock"]
EnabledState(b) == [topic |-> TOPIC_CFG_STATE, payload |-> IF b THEN "true" ELSE "false"]

CountOf(e, s) == Cardinality({i \in 1..Len(s) : s[i] = e})
NoLock(s) == CountOf(LockCmd, s) = 0
NoCommand(s) == CountOf(LockCmd, s) = 0 /\ CountOf(UnlockCmd, s) = 0

Event(kind, speed, payload, live) ==
    [kind |-> kind, speed |-> speed, payload |-> payload, live |-> live]

\* ---------------------------------------------------------------------------
\* AutoLockApp

\* __init__: enabled from the state file, else from AUTOLOCK_ENABLED.
InitAutoLock ==
    /\ stateFile \in {"absent", "true", "false"}
    /\ enabled \in IF stateFile = "absent" THEN BOOLEAN ELSE {stateFile = "true"}
    /\ locked_state = "None"
    /\ pending_lock = FALSE
    /\ any_door_open = FALSE
    /\ vehicleSpeed \in Speeds
    /\ speedInbox = <<>>
    /\ doorInbox = <<>>
    /\ out = <<EnabledState(enabled)>>
    /\ ev = Event("start", NoValue, "", NoValue)

\* A restart whose __init__ takes the AUTOLOCK_ENABLED default without reading
\* STATE_FILE.
RestartFromEnv ==
    /\ enabled' \in BOOLEAN
    /\ locked_state' = "None"
    /\ pending_lock' = FALSE
    /\ any_door_open' = FALSE
    /\ speedInbox' = <<>>
    /\ doorInbox' = <<>>
    /\ out' = <<EnabledState(enabled')>>
    /\ ev' = Event("restart", NoValue, "", NoValue)
    /\ UNCHANGED <<stateFile, vehicleSpeed>>

\* A new AutoLockApp is constructed on the same STATE_FILE and started: __init__
\* reads the file (the AUTOLOCK_ENABLED default applies when it yields nothing),
\* on_start subscribes anew and publishes the enabled state.
Restart ==
    /\ enabled' \in IF stateFile = "absent" THEN BOOLEAN ELSE {stateFile = "true"}
    /\ locked_state' = "None"
    /\ pending_lock' = FALSE
    /\ any_door_open' = FALSE
    /\ speedInbox' = <<>>
    /\ doorInbox' = <<>>
    /\ out' = <<EnabledState(enabled')>>
    /\ ev' = Event("restart", NoValue, "", NoValue)
    /\ UNCHANGED <<stateFile, vehicleSpeed>>

\* The vehicle's speed changes: the broker stores it and notifies subscribers.
VehicleSpeedSet(s) ==
    /\ Len(speedInbox) < MaxInbox
    /\ vehicleSpeed' = s
    /\ speedInbox' = Append(speedInbox, s)
    /\ out' = <<>>
    /\ ev' = Event("vehicle", s, "", NoValue)
    /\ UNCHANGED <<enabled, locked_state, pending_lock, any_door_open, stateFile, doorInbox>>

\* A notification whose datapoint carries no value.
VehicleSpeedNoValue ==
    /\ Len(speedInbox) < MaxInbox
    /\ speedInbox' = Append(speedInbox, NoValue)
    /\ out' = <<>>
    /\ ev' = Event("vehicle", NoValue, "", NoValue)
    /\ UNCHANGED <<enabled, locked_state, pending_lock, any_door_open, stateFile,
                   vehicleSpeed, doorInbox>>

\* A message is published on ext/safety/door.
DoorStatusPublished(p) ==
    /\ Len(doorInbox) < MaxInbox
    /\ doorInbox' = Append(doorInbox, p)
    /\ out' = <<>>
    /\ ev' = Event("door_pub", NoValue, p, NoValue)
    /\ UNCHANGED <<enabled, locked_state, pending_lock, any_door_open, stateFile,
                   vehicleSpeed, speedInbox>>

\* "if speed > LOCK_ABOVE_KPH" of _on_speed_changed.
AboveLockGE(speed) == speed >= LOCK_ABOVE_KPH
AboveLock(speed) == speed > LOCK_ABOVE_KPH

\* "if speed < UNLOCK_BELOW_KPH" of _on_speed_changed.
BelowUnlock(speed) == speed < UNLOCK_BELOW_KPH

\* "if self._locked_state != 'locked'": the latch that publishes on transitions only.
NeedsLockAlways == TRUE
\* The test of the latch made against "unlocked" only.
NeedsLockUnlockedOnly == locked_state = "unlocked"
NeedsLock == locked_state # "locked"

\* The UNLOCK side written with the clearing of pending_lock inside the
\* "if self._locked_state != 'unlocked'" block.
UnlockSideNested ==
    IF locked_state # "unlocked"
    THEN out' = <<UnlockCmd>> /\ locked_state' = "unlocked" /\ pending_lock' = FALSE
    ELSE out' = <<>> /\ UNCHANGED <<locked_state, pending_lock>>

\* The UNLOCK side written as the mirror of the LOCK side: an Unlock only
\* after a Lock.
UnlockSideLockedOnly ==
    /\ IF locked_state = "locked"
       THEN out' = <<UnlockCmd>> /\ locked_state' = "unlocked"
       ELSE out' = <<>> /\ UNCHANGED locked_state
    /\ pending_lock' = FALSE

\* The UNLOCK side of _on_speed_changed.
UnlockSide ==
    /\ IF locked_state # "unlocked"
       THEN out' = <<UnlockCmd>> /\ locked_state' = "unlocked"
       ELSE out' = <<>> /\ UNCHANGED locked_state
    /\ pending_lock' = FALSE

\* _on_speed_changed with the LOCK side written without the test of
\* self._any_door_open.
SpeedChangedDoorsIgnored(speed) ==
    IF speed = NoValue \/ ~enabled
    THEN /\ out' = <<>>
         /\ UNCHANGED <<locked_state, pending_lock>>
    ELSE IF AboveLock(speed)
    THEN IF NeedsLock
         THEN /\ out' = <<LockCmd>>
              /\ locked_state' = "locked"
              /\ pending_lock' = FALSE
         ELSE /\ out' = <<>>
              /\ UNCHANGED <<locked_state, pending_lock>>
    ELSE IF BelowUnlock(speed)
    THEN UnlockSide
    ELSE /\ out' = <<>>
         /\ UNCHANGED <<locked_state, pending_lock>>

\* _on_speed_changed once the sample's value is read.
SpeedChanged(speed) ==
    IF speed = NoValue \/ ~enabled
    THEN /\ out' = <<>>
         /\ UNCHANGED <<locked_state, pending_lock>>
    ELSE IF AboveLock(speed)
    THEN IF any_door_open
         THEN /\ pending_lock' = TRUE
              /\ out' = <<>>
              /\ UNCHANGED locked_state
         ELSE IF NeedsLock
         THEN /\ out' = <<LockCmd>>
              /\ locked_state' = "locked"
              /\ pending_lock' = FALSE
         ELSE /\ out' = <<>>
              /\ UNCHANGED <<locked_state, pending_lock>>
    ELSE IF BelowUnlock(speed)
    THEN UnlockSide
    ELSE /\ out' = <<>>
         /\ UNCHANGED <<locked_state, pending_lock>>

on_speed_changed ==
    /\ speedInbox # <<>>
    /\ speedInbox' = Tail(speedInbox)
    /\ SpeedChanged(Head(speedInbox))
    /\ ev' = Event("speed", Head(speedInbox), "", NoValue)
    /\ UNCHANGED <<enabled, any_door_open, stateFile, vehicleSpeed, doorInbox>>

\* json.loads(payload) and bool(data.get("anyOpen", False)): "None" when either raises.
AnyOpenOf(p) ==
    CASE p = "open" -> "true"
      [] p = "closed" -> "false"
      [] p = "no_anyOpen" -> "false"
      [] OTHER -> "None"

\* "doors opened while already moving and not locked" of on_door_status.
DoorsOpenedWhileMoving(any_open, speed_now) ==
    /\ any_open
    /\ speed_now # NoValue
    /\ speed_now > LOCK_ABOVE_KPH
    /\ locked_state # "locked"

\* The deferred Lock fired without the test of the doors.
PendingDoorsClosedAnyDoor(any_open, speed_now) ==
    /\ pending_lock
    /\ speed_now # NoValue
    /\ speed_now > LOCK_ABOVE_KPH

\* The deferred Lock fired also when Vehicle.Speed.get() raised.
PendingDoorsClosedUnread(any_open, speed_now) ==
    /\ pending_lock
    /\ ~any_open
    /\ (speed_now = NoValue \/ speed_now > LOCK_ABOVE_KPH)

\* "we were pending and doors just became closed while still moving".
PendingDoorsClosedBelow(any_open, speed_now) ==
    /\ pending_lock
    /\ ~any_open
    /\ speed_now # NoValue
    /\ speed_now < LOCK_ABOVE_KPH
PendingDoorsClosed(any_open, speed_now) ==
    /\ pending_lock
    /\ ~any_open
    /\ speed_now # NoValue
    /\ speed_now > LOCK_ABOVE_KPH

\* on_door_status after the payload parsed to any_open, with speed_now the
\* result of Vehicle.Speed.get() (NoValue when the read raised).
DoorStatus(any_open, speed_now) ==
    /\ any_door_open' = any_open
    /\ IF DoorsOpenedWhileMoving(any_open, speed_now)
       THEN /\ pending_lock' = TRUE
            /\ out' = <<>>
            /\ UNCHANGED locked_state
       ELSE IF PendingDoorsClosed(any_open, speed_now)
       THEN /\ out' = <<LockCmd>>
            /\ locked_state' = "locked"
            /\ pending_lock' = FALSE
       ELSE /\ out' = <<>>
            /\ UNCHANGED <<locked_state, pending_lock>>

on_door_status ==
    /\ doorInbox # <<>>
    /\ doorInbox' = Tail(doorInbox)
    /\ \E speed_now \in {vehicleSpeed, NoValue} :
          /\ IF AnyOpenOf(Head(doorInbox)) = "None"
             THEN /\ out' = <<>>
                  /\ UNCHANGED <<locked_state, pending_lock, any_door_open>>
             ELSE DoorStatus(AnyOpenOf(Head(doorInbox)) = "true", speed_now)
          /\ ev' = Event("door", NoValue, Head(doorInbox),
                         IF AnyOpenOf(Head(doorInbox)) = "None" THEN NoValue ELSE speed_now)
    /\ UNCHANGED <<enabled, stateFile, vehicleSpeed, speedInbox>>

\* on_cfg_set taking every JSON value that is truthy for true, as _parse_bool
\* of the safety app does.
NewEnabledOfTruthy(p) ==
    CASE p \in {"true", " TRUE ", "1"} -> "true"
      [] p = "false" -> "false"
      [] OTHER -> "None"

\* on_cfg_set: new_enabled is "None" for a payload that is neither true/false
\* (stripped, lower-cased) nor a JSON boolean: json.loads("1") is an int.
NewEnabledOf(p) ==
    CASE p \in {"true", " TRUE "} -> "true"
      [] p = "false" -> "false"
      [] OTHER -> "None"

\* on_cfg_set returning without a publish when the flag is already as asked.
CfgSetQuietWhenSame(p) ==
    IF NewEnabledOf(p) = "None" \/ (NewEnabledOf(p) = "true") = enabled
    THEN /\ out' = <<>>
         /\ UNCHANGED <<enabled, stateFile>>
    ELSE /\ enabled' = (NewEnabledOf(p) = "true")
         /\ stateFile' \in {stateFile, NewEnabledOf(p)}
         /\ out' = <<EnabledState(enabled')>>

\* _persist_enabled_to_file: a failed write is logged and leaves the file as it was.
PersistEnabled(b, written) ==
    stateFile' = IF written THEN (IF b THEN "true" ELSE "false") ELSE stateFile

CfgSet(p) ==
    IF NewEnabledOf(p) = "None"
    THEN /\ out' = <<>>
         /\ UNCHANGED <<enabled, stateFile>>
    ELSE IF (NewEnabledOf(p) = "true") = enabled
    THEN /\ out' = <<EnabledState(enabled)>>
         /\ UNCHANGED <<enabled, stateFile>>
    ELSE /\ enabled' = (NewEnabledOf(p) = "true")
         /\ \E written \in BOOLEAN : PersistEnabled(enabled', written)
         /\ out' = <<EnabledState(enabled')>>

on_cfg_set(p) ==
    /\ CfgSet(p)
    /\ ev' = Event("cfg", NoValue, p, NoValue)
    /\ UNCHANGED <<locked_state, pending_lock, any_door_open, vehicleSpeed,
                   speedInbox, doorInbox>>

\* ---------------------------------------------------------------------------
\* Observers of the AutoLock run.  Each is a function of the step just taken
\* (ev', out') and of the state before and after it.

\* A run that began at a fresh, enabled start with doors closed and has seen
\* only samples > LOCK_ABOVE_KPH ("high"), then only samples < UNLOCK_BELOW_KPH
\* ("low"); "off" once anything else was handled.
NextPhase ==
    CASE ev'.kind = "speed" ->
           IF ev'.speed = NoValue THEN phase
           ELSE IF ev'.speed > LOCK_ABOVE_KPH /\ phase \in {"fresh", "high"} THEN "high"
           ELSE IF ev'.speed < UNLOCK_BELOW_KPH /\ phase \in {"high", "low"} THEN "low"
           ELSE "off"
      [] ev'.kind = "door" -> IF any_door_open' THEN "off" ELSE phase
      [] ev'.kind = "cfg" -> IF enabled' THEN phase ELSE "off"
      [] OTHER -> phase

\* A doors-open event was handled at a live speed > LOCK_ABOVE_KPH by an enabled,
\* not locked controller, and since then no doors-closed event was handled and
\* no sample <= LOCK_ABOVE_KPH.
NextArmed ==
    CASE ev'.kind = "door" /\ AnyOpenOf(ev'.payload) = "true" ->
           \/ armed
           \/ enabled /\ locked_state # "locked" /\ ev'.live > LOCK_ABOVE_KPH
      [] ev'.kind = "door" /\ AnyOpenOf(ev'.payload) = "false" -> FALSE
      [] ev'.kind = "speed" /\ ev'.speed # NoValue /\ ev'.speed <= LOCK_ABOVE_KPH -> FALSE
      [] OTHER -> armed

\* No speed > LOCK_ABOVE_KPH is current or in flight.
SpeedNotAbove(v, inbox) ==
    v <= LOCK_ABOVE_KPH /\ \A i \in 1..Len(inbox) : inbox[i] <= LOCK_ABOVE_KPH

\* A sample < UNLOCK_BELOW_KPH was handled with enabled and pending_lock, and
\* the speed has not exceeded LOCK_ABOVE_KPH again since.
NextSlowed ==
    /\ \/ slowed
       \/ ev'.kind = "speed" /\ enabled /\ pending_lock
          /\ ev'.speed # NoValue /\ ev'.speed < UNLOCK_BELOW_KPH
    /\ SpeedNotAbove(vehicleSpeed', speedInbox')

\* Whether the speed the controller observed last (a sample, or the live read
\* of a door event) exceeds LOCK_ABOVE_KPH.
NextSeenAbove ==
    IF ev'.kind = "speed" /\ ev'.speed # NoValue THEN ev'.speed > LOCK_ABOVE_KPH
    ELSE IF ev'.kind = "door" /\ ev'.live # NoValue THEN ev'.live > LOCK_ABOVE_KPH
    ELSE seen_above

\* A door has opened and the speed has risen above LOCK_ABOVE_KPH, and the
\* enabled, idle controller has handled neither notification yet.
RaceStart ==
    /\ enabled /\ locked_state # "locked" /\ ~pending_lock /\ ~any_door_open
    /\ doorInbox = <<"open">>
    /\ Len(speedInbox) = 1 /\ Head(speedInbox) > LOCK_ABOVE_KPH

NextRace ==
    CASE RaceStart /\ ev'.kind = "door" /\ ev'.live # NoValue -> "door_first"
      [] RaceStart /\ ev'.kind = "speed" -> "speed_first"
      [] race = "door_first" /\ ev'.kind = "speed" -> "done"
      [] race = "speed_first" /\ ev'.kind = "door" /\ ev'.live # NoValue -> "done"
      [] OTHER -> "idle"

InitObservers ==
    /\ phase = IF enabled THEN "fresh" ELSE "off"
    /\ locks = 0
    /\ unlocks = 0
    /\ armed = FALSE
    /\ slowed = FALSE
    /\ seen_above = FALSE
    /\ race = "idle"

Observe ==
    /\ phase' = NextPhase
    /\ locks' = IF phase' = "off" THEN 0 ELSE locks + CountOf(LockCmd, out')
    /\ unlocks' = IF phase' = "off" THEN 0 ELSE unlocks + CountOf(UnlockCmd, out')
    /\ armed' = NextArmed
    /\ slowed' = NextSlowed
    /\ seen_above' = NextSeenAbove
    /\ race' = NextRace

InitLifetime ==
    /\ changed_to = "None"
    /\ ever_locked = FALSE
    /\ skip = "none"

\* The value the last config command of the running controller that changed
\* enabled gave it.
LastChange == IF ev.kind = "restart" THEN "None" ELSE changed_to

\* The step was a handler that reached its lock decision with a speed.
Decides ==
    \/ ev'.kind = "speed" /\ ev'.speed # NoValue /\ enabled
    \/ ev'.kind = "door" /\ AnyOpenOf(ev'.payload) # "None" /\ ev'.live # NoValue

NextSkip ==
    IF ev'.kind = "restart" THEN "none"
    ELSE IF ev'.kind = "door" /\ AnyOpenOf(ev'.payload) # "None" /\ ev'.live = NoValue
    THEN "skipped"
    ELSE IF Decides THEN (IF skip = "skipped" THEN "retaken" ELSE "none")
    ELSE skip

ObserveLifetime ==
    /\ changed_to' = IF ev'.kind = "cfg" /\ enabled' # enabled
                     THEN (IF enabled' THEN "true" ELSE "false")
                     ELSE LastChange
    /\ ever_locked' = IF ev'.kind = "restart" THEN FALSE
                      ELSE ever_locked \/ ~NoLock(out')
    /\ skip' = NextSkip

\* ---------------------------------------------------------------------------
\* Debounce gates

DebouncedState == [active |-> FALSE, up |-> 0, down |-> 0]

\* _tick with ">" where the code has ">=".
TickLate(s, condition, n) ==
    IF condition
    THEN IF ~s.active /\ s.up + 1 > n
         THEN [st |-> [active |-> TRUE, up |-> s.up + 1, down |-> 0], ret |-> "activated"]
         ELSE [st |-> [active |-> s.active, up |-> s.up + 1, down |-> 0], ret |-> "None"]
    ELSE IF s.active /\ s.down + 1 > n
         THEN [st |-> [active |-> FALSE, up |-> 0, down |-> s.down + 1], ret |-> "cleared"]
         ELSE [st |-> [active |-> s.active, up |-> 0, down |-> s.down + 1], ret |-> "None"]

\* _tick without the test of st.active on the activating side.
TickRefire(s, condition, n) ==
    IF condition
    THEN IF s.up + 1 >= n
         THEN [st |-> [active |-> TRUE, up |-> s.up + 1, down |-> 0], ret |-> "activated"]
         ELSE [st |-> [active |-> s.active, up |-> s.up + 1, down |-> 0], ret |-> "None"]
    ELSE IF s.active /\ s.down + 1 >= n
         THEN [st |-> [active |-> FALSE, up |-> 0, down |-> s.down + 1], ret |-> "cleared"]
         ELSE [st |-> [active |-> s.active, up |-> 0, down |-> s.down + 1], ret |-> "None"]

\* _tick without the reset of the opposite counter.
TickKeepsOther(s, condition, n) ==
    IF condition
    THEN IF ~s.active /\ s.up + 1 >= n
         THEN [st |-> [active |-> TRUE, up |-> s.up + 1, down |-> s.down], ret |-> "activated"]
         ELSE [st |-> [active |-> s.active, up |-> s.up + 1, down |-> s.down], ret |-> "None"]
    ELSE IF s.active /\ s.down + 1 >= n
         THEN [st |-> [active |-> FALSE, up |-> s.up, down |-> s.down + 1], ret |-> "cleared"]
         ELSE [st |-> [active |-> s.active, up |-> s.up, down |-> s.down + 1], ret |-> "None"]

\* _tick of safety_vapp.py: the state after the tick and the value returned.
Tick(s, condition, n) ==
    IF condition
    THEN IF ~s.active /\ s.up + 1 >= n
         THEN [st |-> [active |-> TRUE, up |-> s.up + 1, down |-> 0], ret |-> "activated"]
         ELSE [st |-> [active |-> s.active, up |-> s.up + 1, down |-> 0], ret |-> "None"]
    ELSE IF s.active /\ s.down + 1 >= n
         THEN [st |-> [active |-> FALSE, up |-> 0, down |-> s.down + 1], ret |-> "cleared"]
         ELSE [st |-> [active |-> s.active, up |-> 0, down |-> s.down + 1], ret |-> "None"]

\* SafetyMonitor._update of safety/monitor.py, with n = cfg["DEBOUNCE_COUNT"].
Update(s, condition, n) ==
    IF condition
    THEN LET up == s.up + 1
         IN IF ~s.active /\ up >= n
            THEN [st |-> [active |-> TRUE, up |-> up, down |-> 0], ret |-> "activated"]
            ELSE [st |-> [active |-> s.active, up |-> up, down |-> 0], ret |-> "None"]
    ELSE LET down == s.down + 1
         IN IF s.active /\ down >= n
            THEN [st |-> [active |-> FALSE, up |-> 0, down |-> down], ret |-> "cleared"]
            ELSE [st |-> [active |-> s.active, up |-> 0, down |-> down], ret |-> "None"]

\* SafetyLogic._update counting to a debounce of at least 2.
LogicUpdateFloorTwo(s, condition, n) ==
    LET debounce == IF n < 2 THEN 2 ELSE n
    IN IF condition
       THEN IF ~s.active /\ s.up + 1 >= debounce
            THEN [st |-> [active |-> TRUE, up |-> s.up + 1, down |-> 0],
                  ret |-> "activated"]
            ELSE [st |-> [active |-> s.active, up |-> s.up + 1, down |-> 0],
                  ret |-> "None"]
       ELSE IF s.active /\ s.down + 1 >= debounce
            THEN [st |-> [active |-> FALSE, up |-> 0, down |-> s.down + 1],
                  ret |-> "cleared"]
            ELSE [st |-> [active |-> s.active, up |-> 0, down |-> s.down + 1],
                  ret |-> "None"]

\* SafetyLogic._update of mqtt/mqtt_app.py, with n = self.debounce.
LogicUpdate(s, condition, n) ==
    IF condition
    THEN IF ~s.active /\ s.up + 1 >= n
         THEN [st |-> [active |-> TRUE, up |-> s.up + 1, down |-> 0], ret |-> "activated"]
         ELSE [st |-> [active |-> s.active, up |-> s.up + 1, down |-> 0], ret |-> "None"]
    ELSE IF s.active /\ s.down + 1 >= n
         THEN [st |-> [active |-> FALSE, up |-> 0, down |-> s.down + 1], ret |-> "cleared"]
         ELSE [st |-> [active |-> s.active, up |-> 0, down |-> s.down + 1], ret |-> "None"]

InitGates ==
    /\ st = DebouncedState
    /\ lg = DebouncedState
    /\ lret = "None"
    /\ mon = DebouncedState
    /\ cond = FALSE
    /\ ret = "None"
    /\ mret = "None"
    /\ was_active = FALSE
    /\ run = 0
    /\ prev_tr = "None"
    /\ ticks = 0

\* One evaluation: the same condition is fed to the three gates.
TickGates(c) ==
    /\ ticks < MaxTicks
    /\ st' = Tick(st, c, debounce_count).st
    /\ ret' = Tick(st, c, debounce_count).ret
    /\ mon' = Update(mon, c, debounce_count).st
    /\ mret' = Update(mon, c, debounce_count).ret
    /\ lg' = LogicUpdate(lg, c, debounce_count).st
    /\ lret' = LogicUpdate(lg, c, debounce_count).ret
    /\ cond' = c
    /\ was_active' = st.active
    /\ run' = IF ticks > 0 /\ c = cond THEN run + 1 ELSE 1
    /\ prev_tr' = IF ret # "None" THEN ret ELSE prev_tr
    /\ ticks' = ticks + 1
    /\ UNCHANGED debounce_count

\* ---------------------------------------------------------------------------
\* SafetyApp (safety_vapp.py)

threshold_kph == 5
topic_seatbelt == "ext/safety/seatbelt"
topic_door == "ext/safety/door"
topic_speed == "ext/safety/speed"

Doors == {"frontLeft", "frontRight", "rearLeft", "rearRight"}
Belts == {"row1_pos1", "row1_pos2"}

\* The doors whose input topics carry messages here; the four door handlers
\* differ in the key they assign only.
DoorInputs == {"frontLeft", "frontRight"}

\* Speed values delivered to SafetyApp: one below threshold_kph, the threshold,
\* and those above it.
SafetySpeeds == (threshold_kph - 1)..MaxSpeed

\* Payloads of the safety/input/... topics: two that _parse_bool knows, a JSON
\* number, and text that json.loads rejects.
BoolPayloads == {"true", "off", "2", "junk"}

\* _parse_bool
ParseBool(p) ==
    CASE p = "true" -> TRUE
      [] p = "off" -> FALSE
      [] p = "2" -> TRUE
      [] OTHER -> FALSE

\* "moving = self.speed_kph > self.threshold_kph" with ">=".
MovingGE(speed) == speed >= threshold_kph
Moving(speed) == speed > threshold_kph

Unfastened(belts) == {k \in Belts : ~belts[k]}
OpenDoors(doors) == {k \in Doors : doors[k]}

\* The condition fed to the door gate without "moving and".
GateConditionSetOnly(moving, items) == items # {}
\* "moving and bool(unfastened)", "moving and bool(open_doors)"
GateCondition(moving, items) == moving /\ items # {}

\* should_update as a republish on every evaluation while the alert is active.
ShouldUpdateWhileActive(change, s, items, last, moving) ==
    change # "None" \/ s.active
\* should_update as a publish on gate transitions only.
ShouldUpdateOnChange(change, s, items, last, moving) ==
    change # "None"
\* seatbelt_should_update / door_should_update
ShouldUpdate(change, s, items, last, moving) ==
    \/ change # "None"
    \/ s.active /\ (items # last \/ moving # last_moving)

SpeedEvent(speed) ==
    [topic |-> topic_speed, speedKph |-> IF speed = NoValue THEN 0 ELSE speed]

\* The payload with "state" fixed to "active".
AlertPayloadAlwaysActive(topic, speed, items, s) ==
    [topic |-> topic, moving |-> Moving(speed), speedKph |-> speed,
     any |-> items # {}, items |-> items, thresholdKph |-> threshold_kph,
     state |-> "active"]
AlertPayload(topic, speed, items, s) ==
    [topic |-> topic, moving |-> Moving(speed), speedKph |-> speed,
     any |-> items # {}, items |-> items, thresholdKph |-> threshold_kph,
     state |-> IF s.active THEN "active" ELSE "cleared"]

SafetyEvent(kind, evaluated, same, sb_change, dr_change) ==
    [kind |-> kind, evaluated |-> evaluated, same |-> same,
     sb_change |-> sb_change, dr_change |-> dr_change]

\* _evaluate_and_publish on the fields as the handler has just set them;
\* head is what the handler published before calling it.  With speed_kph None
\* the comparison of line 144 raises and the handler ends there.
EvaluateAndPublish(kind, speed, doors, belts, head) ==
    LET same == speed = speed_kph /\ doors = doors_open /\ belts = belts_fastened
    IN IF speed = NoValue
       THEN /\ pub' = head
            /\ sev' = SafetyEvent(kind, FALSE, same, "None", "None")
            /\ UNCHANGED <<sb_state, door_state, last_open_doors, last_unfastened,
                           last_moving>>
       ELSE LET moving == Moving(speed)
                unfastened == Unfastened(belts)
                open_doors == OpenDoors(doors)
                sb == Tick(sb_state, GateCondition(moving, unfastened), debounce_count)
                dr == Tick(door_state, GateCondition(moving, open_doors), debounce_count)
                seatbelt_should_update ==
                    ShouldUpdate(sb.ret, sb.st, unfastened, last_unfastened, moving)
                door_should_update ==
                    ShouldUpdate(dr.ret, dr.st, open_doors, last_open_doors, moving)
            IN /\ sb_state' = sb.st
               /\ door_state' = dr.st
               /\ pub' = head
                        \o (IF seatbelt_should_update
                            THEN <<AlertPayload(topic_seatbelt, speed, unfastened, sb.st)>>
                            ELSE <<>>)
                        \o (IF door_should_update
                            THEN <<AlertPayload(topic_door, speed, open_doors, dr.st)>>
                            ELSE <<>>)
               /\ last_unfastened' = IF seatbelt_should_update THEN unfastened
                                     ELSE last_unfastened
               /\ last_open_doors' = IF door_should_update THEN open_doors
                                     ELSE last_open_doors
               /\ last_moving' = moving
               /\ sev' = SafetyEvent(kind, TRUE, same, sb.ret, dr.ret)

\* __init__ and on_start of SafetyApp.
InitSafety ==
    /\ speed_kph = 0
    /\ doors_open = [k \in Doors |-> FALSE]
    /\ belts_fastened = [k \in Belts |-> TRUE]
    /\ sb_state = DebouncedState
    /\ door_state = DebouncedState
    /\ last_open_doors = {}
    /\ last_unfastened = {}
    /\ last_moving = FALSE
    /\ pub = <<[topic |-> "ext/safety/config", thresholdKph |-> threshold_kph,
                debounce |-> debounce_count]>>
    /\ sev = SafetyEvent("start", FALSE, FALSE, "None", "None")

\* on_speed_changed of SafetyApp, value being the datapoint's value.
safety_on_speed_changed(value) ==
    /\ evals < MaxEvals
    /\ speed_kph' = value
    /\ UNCHANGED <<doors_open, belts_fastened>>
    /\ EvaluateAndPublish("speed", value, doors_open, belts_fastened,
                          <<SpeedEvent(value)>>)

\* _on_door_front_left, _on_door_front_right, _on_door_rear_left, _on_door_rear_right
on_door(k, payload) ==
    /\ evals < MaxEvals
    /\ doors_open' = [doors_open EXCEPT ![k] = ParseBool(payload)]
    /\ UNCHANGED <<speed_kph, belts_fastened>>
    /\ EvaluateAndPublish("door", speed_kph, doors_open', belts_fastened, <<>>)

\* _on_belt_row1_pos1, _on_belt_row1_pos2
on_belt(k, payload) ==
    /\ evals < MaxEvals
    /\ belts_fastened' = [belts_fastened EXCEPT ![k] = ParseBool(payload)]
    /\ UNCHANGED <<speed_kph, doors_open>>
    /\ EvaluateAndPublish("belt", speed_kph, doors_open, belts_fastened', <<>>)

\* The payloads of one topic among those published.
OnTopic(topic, s) == {i \in 1..Len(s) : s[i].topic = topic}

\* The set carried by the latest payload of a topic, shown the last one known.
Shown(topic, s, shown) ==
    IF OnTopic(topic, s) = {} THEN shown
    ELSE s[CHOOSE i \in OnTopic(topic, s) : \A j \in OnTopic(topic, s) : j <= i].items

InitSafetyObservers ==
    /\ evals = 0
    /\ ever_moved = FALSE
    /\ still_run = 0
    /\ shown_doors = {}
    /\ shown_belts = {}

Min(a, b) == IF a < b THEN a ELSE b

ObserveSafety ==
    /\ evals' = evals + 1
    /\ ever_moved' = (ever_moved \/ (speed_kph' # NoValue /\ speed_kph' > threshold_kph))
    /\ still_run' = IF ~sev'.evaluated THEN still_run
                    ELSE IF speed_kph' <= threshold_kph
                    THEN Min(still_run + 1, debounce_count)
                    ELSE 0
    /\ shown_doors' = Shown(topic_door, pub', shown_doors)
    /\ shown_belts' = Shown(topic_seatbelt, pub', shown_belts)

\* ---------------------------------------------------------------------------
\* Child mode: ChildLockController (childlock_vapp_main.py) and
\* ChildModeController (childlock_vapp.py)

TOPIC_CHILDLOCK_EVENTS == "ext/safety/childLock/events"
TOPIC_AUTOLOCK_CFG_SET == "safety/config/autolock/set"
CHILD_MODE_MAX_SPEED_KPH == 30

\* ChildModeConfig defaults
normal_lock_threshold_kph == 10
child_lock_threshold_kph == 5
block_rear_inside_unlock == TRUE

DoorPosition == {"FRONT_LEFT", "FRONT_RIGHT", "REAR_LEFT", "REAR_RIGHT"}
UnlockSource == {"INSIDE", "OUTSIDE", "REMOTE"}

\* Payloads on vehicle/childLock/set and on ext/doors/+/unlock.
SetPayloads == {"on", " ON ", "true", "off", "false", "junk"}
UnlockPayloads == {"inside", "Inside ", "outside", "remote"}

\* Topics handed to handle_unlock_request, split at "/": those matching
\* ext/doors/+/unlock, and one of fewer than 4 parts.
DoorIds == {"frontLeft", "frontRight", "rearLeft", "rearRight"}
UnlockTopics ==
    {<<"ext", "doors", d, "unlock">> : d \in DoorIds} \cup {<<"doors", "rearLeft", "unlock">>}

\* payload.strip().lower()
StripLower(p) ==
    CASE p = " ON " -> "on"
      [] p = "Inside " -> "inside"
      [] OTHER -> p

\* door_id.upper()
Upper(d) ==
    CASE d = "frontLeft" -> "FRONTLEFT"
      [] d = "frontRight" -> "FRONTRIGHT"
      [] d = "rearLeft" -> "REARLEFT"
      [] d = "rearRight" -> "REARRIGHT"
      [] OTHER -> d

ActivatedEvent(normal, child) ==
    [topic |-> TOPIC_CHILDLOCK_EVENTS, event |-> "child_mode_activated",
     normal_lock_threshold_kph |-> normal, child_lock_threshold_kph |-> child]
DeactivatedEvent ==
    [topic |-> TOPIC_CHILDLOCK_EVENTS, event |-> "child_mode_deactivated"]
BlockedEvent(door) ==
    [topic |-> TOPIC_CHILDLOCK_EVENTS, event |-> "child_mode_blocked_rear_inside_unlock",
     door |-> door]
AutoLockEnable == [topic |-> TOPIC_AUTOLOCK_CFG_SET, payload |-> "true"]

ChildEvent(kind, value, door, source, verdict) ==
    [kind |-> kind, enabled |-> value, door |-> door, source |-> source,
     verdict |-> verdict]

\* __init__ of both controllers.
InitChild ==
    /\ child_mode_enabled = FALSE
    /\ cout = <<>>
    /\ cm_enabled = FALSE
    /\ cm_out = <<>>
    /\ cev = ChildEvent("start", FALSE, "", "", "")
    /\ last_speed_kph = 0
    /\ cl_moving = FALSE
    /\ cl_any_door_open = FALSE
    /\ cl_any_unfastened = FALSE

\* _set_child_mode publishing the events whether or not the flag changes.
SetChildModeAlways(value) ==
    /\ child_mode_enabled' = value
    /\ cout' = IF value
               THEN <<AutoLockEnable,
                      ActivatedEvent(LOCK_ABOVE_KPH, CHILD_MODE_MAX_SPEED_KPH)>>
               ELSE <<DeactivatedEvent>>

\* _set_child_mode forcing AutoLock off when child mode is disabled.
SetChildModeForcesOff(value) ==
    IF value = child_mode_enabled
    THEN /\ cout' = <<>>
         /\ UNCHANGED child_mode_enabled
    ELSE /\ child_mode_enabled' = value
         /\ cout' = IF value
                    THEN <<AutoLockEnable,
                           ActivatedEvent(LOCK_ABOVE_KPH, CHILD_MODE_MAX_SPEED_KPH)>>
                    ELSE <<[topic |-> TOPIC_AUTOLOCK_CFG_SET, payload |-> "false"],
                           DeactivatedEvent>>

\* ChildLockController._set_child_mode
SetChildMode(value) ==
    IF value = child_mode_enabled
    THEN /\ cout' = <<>>
         /\ UNCHANGED child_mode_enabled
    ELSE /\ child_mode_enabled' = value
         /\ cout' = IF value
                    THEN <<AutoLockEnable,
                           ActivatedEvent(LOCK_ABOVE_KPH, CHILD_MODE_MAX_SPEED_KPH)>>
                    ELSE <<DeactivatedEvent>>

\* "enabled = raw in ('on', '1', 'true', 'yes')"
EnabledOf(payload) == StripLower(payload) \in {"on", "1", "true", "yes"}

handle_childlock_set(payload) ==
    /\ SetChildMode(EnabledOf(payload))
    /\ cev' = ChildEvent("childlock_set", EnabledOf(payload), "", payload, "")
    /\ cm_out' = <<>>
    /\ UNCHANGED <<cm_enabled, snapVars>>

\* ChildLockController.set_child_mode, called by the presence-detector loop.
set_child_mode(value) ==
    /\ SetChildMode(value)
    /\ cev' = ChildEvent("set_child_mode", value, "", "", "")
    /\ cm_out' = <<>>
    /\ UNCHANGED <<cm_enabled, snapVars>>

\* The test of handle_unlock_request without the test of the source.
UnlockBlockedAnySource(door_id, source) ==
    child_mode_enabled /\ door_id \in {"rearLeft", "rearRight"}
\* The test of handle_unlock_request that blocks the request.
UnlockBlocked(door_id, source) ==
    /\ child_mode_enabled
    /\ source = "inside"
    /\ door_id \in {"rearLeft", "rearRight"}

handle_unlock_request(topic, payload) ==
    /\ IF Len(topic) < 4
       THEN /\ cout' = <<>>
            /\ cev' = ChildEvent("unlock_request", FALSE, "", payload, "ignored")
       ELSE IF UnlockBlocked(topic[3], StripLower(payload))
       THEN /\ cout' = <<BlockedEvent(Upper(topic[3]))>>
            /\ cev' = ChildEvent("unlock_request", FALSE, topic[3], payload, "blocked")
       ELSE /\ cout' = <<>>
            /\ cev' = ChildEvent("unlock_request", FALSE, topic[3], payload, "allowed")
    /\ cm_out' = <<>>
    /\ UNCHANGED <<child_mode_enabled, cm_enabled, snapVars>>

\* ChildModeController.set_enabled with _on_activated / _on_deactivated
set_enabled(value) ==
    /\ IF cm_enabled = value
       THEN /\ cm_out' = <<>>
            /\ UNCHANGED cm_enabled
       ELSE /\ cm_enabled' = value
            /\ cm_out' = IF value
                         THEN <<ActivatedEvent(normal_lock_threshold_kph,
                                               cm_child_threshold)>>
                         ELSE <<DeactivatedEvent>>
    /\ cev' = ChildEvent("set_enabled", value, "", "", "")
    /\ cout' = <<>>
    /\ UNCHANGED <<child_mode_enabled, snapVars>>

\* get_lock_threshold_kph returning the base threshold as it is passed
\* whenever child mode is off.
get_lock_threshold_no_fallback(base_threshold_kph) ==
    IF cm_enabled THEN cm_child_threshold
    ELSE base_threshold_kph

\* ChildModeController.get_lock_threshold_kph: "base or normal" takes the
\* normal threshold for a base of zero.
get_lock_threshold_kph(base_threshold_kph) ==
    IF cm_enabled THEN cm_child_threshold
    ELSE IF base_threshold_kph # 0 THEN base_threshold_kph
    ELSE normal_lock_threshold_kph

\* Base thresholds passed by the auto-lock logic: zero, and non-zero ones
\* below, at and above the child threshold.
BaseThresholds == {0, UNLOCK_BELOW_KPH, child_lock_threshold_kph, normal_lock_threshold_kph}

ThresholdEvent(speed, base, threshold) ==
    [kind |-> "handle_speed", speed |-> speed, base |-> base, threshold |-> threshold]

\* ChildModeVApp.handle_speed: the value returned is the threshold of the event.
handle_speed(speed, base_lock_threshold_kph) ==
    /\ cev' = ThresholdEvent(speed, base_lock_threshold_kph,
                             get_lock_threshold_kph(base_lock_threshold_kph))
    /\ cm_out' = <<>>
    /\ cout' = <<>>
    /\ UNCHANGED <<child_mode_enabled, cm_enabled, snapVars>>

\* ChildModeController.is_unlock_allowed: the value returned is the verdict.
is_unlock_allowed(door, source) ==
    /\ IF ~cm_enabled
       THEN /\ cm_out' = <<>>
            /\ cev' = ChildEvent("is_unlock_allowed", FALSE, door, source, "allowed")
       ELSE IF /\ block_rear_inside_unlock
               /\ source = "INSIDE"
               /\ door \in {"REAR_LEFT", "REAR_RIGHT"}
       THEN /\ cm_out' = <<BlockedEvent(door)>>
            /\ cev' = ChildEvent("is_unlock_allowed", FALSE, door, source, "blocked")
       ELSE /\ cm_out' = <<>>
            /\ cev' = ChildEvent("is_unlock_allowed", FALSE, door, source, "allowed")
    /\ cout' = <<>>
    /\ UNCHANGED <<child_mode_enabled, cm_enabled, snapVars>>

\* ---------------------------------------------------------------------------
\* ChildLockController: the samples of ext/safety/speed, ext/safety/door and
\* ext/safety/seatbelt

\* speedKph of a sample: standing (also the default of a sample without the
\* field), at the ceiling and above it.
ChildSpeeds == {0, CHILD_MODE_MAX_SPEED_KPH, CHILD_MODE_MAX_SPEED_KPH + 1}

\* The list a sample carries under "open" or "unfastened".
SampleItems == {<<>>, <<"rearLeft">>}

\* A payload that json.loads accepts, by the values data.get reads from it
\* (any is anyOpen of a door sample and anyUnfastened of a seatbelt sample),
\* and one that json.loads rejects.
Malformed ==
    [ok |-> FALSE, moving |-> FALSE, speedKph |-> 0, any |-> FALSE, items |-> <<>>]
Samples ==
    [ok : {TRUE}, moving : BOOLEAN, speedKph : ChildSpeeds, any : BOOLEAN,
     items : SampleItems] \cup {Malformed}
SpeedSamples ==
    [ok : {TRUE}, moving : {FALSE}, speedKph : ChildSpeeds, any : {FALSE},
     items : {<<>>}] \cup {Malformed}

SpeedExceededEvent(speed) ==
    [topic |-> TOPIC_CHILDLOCK_EVENTS, event |-> "child_mode_speed_exceeded",
     speedKph |-> speed, limitKph |-> CHILD_MODE_MAX_SPEED_KPH]
UnfastenedEvent(speed, field, items) ==
    [topic |-> TOPIC_CHILDLOCK_EVENTS, event |-> "child_mode_unfastened_seatbelt",
     speedKph |-> speed, field |-> field, items |-> items]

SampleEvent(kind, sample) == [kind |-> kind, sample |-> sample]

\* The ceiling test with ">=" where the code has ">".
SpeedExceededGE(speed) ==
    child_mode_enabled /\ speed >= CHILD_MODE_MAX_SPEED_KPH
\* "self.child_mode_enabled and speed_kph > CHILD_MODE_MAX_SPEED_KPH"
SpeedExceeded(speed) ==
    child_mode_enabled /\ speed > CHILD_MODE_MAX_SPEED_KPH

\* The alert test without the test of moving.
UnfastenedAlertStanding(is_moving, any) ==
    child_mode_enabled /\ any
\* "self.child_mode_enabled and moving and any_unfastened" (any_open for a door)
UnfastenedAlert(is_moving, any) ==
    child_mode_enabled /\ is_moving /\ any

\* What a door or seatbelt handler publishes for a sample.
SampleAlerts(d, field) ==
    (IF SpeedExceeded(d.speedKph) THEN <<SpeedExceededEvent(d.speedKph)>> ELSE <<>>)
    \o (IF UnfastenedAlert(d.moving, d.any)
        THEN <<UnfastenedEvent(d.speedKph, field, d.items)>>
        ELSE <<>>)

handle_safety_door(d) ==
    /\ IF ~d.ok
       THEN /\ cout' = <<>>
            /\ UNCHANGED snapVars
       ELSE /\ cl_moving' = d.moving
            /\ last_speed_kph' = d.speedKph
            /\ cl_any_door_open' = d.any
            /\ cout' = SampleAlerts(d, "any_door_open")
            /\ UNCHANGED cl_any_unfastened
    /\ cev' = SampleEvent("safety_door", d)
    /\ cm_out' = <<>>
    /\ UNCHANGED <<child_mode_enabled, cm_enabled>>

handle_safety_seatbelt(d) ==
    /\ IF ~d.ok
       THEN /\ cout' = <<>>
            /\ UNCHANGED snapVars
       ELSE /\ cl_moving' = d.moving
            /\ last_speed_kph' = d.speedKph
            /\ cl_any_unfastened' = d.any
            /\ cout' = SampleAlerts(d, "unfastened")
            /\ UNCHANGED cl_any_door_open
    /\ cev' = SampleEvent("safety_seatbelt", d)
    /\ cm_out' = <<>>
    /\ UNCHANGED <<child_mode_enabled, cm_enabled>>

handle_safety_speed(d) ==
    /\ IF ~d.ok
       THEN /\ cout' = <<>>
            /\ UNCHANGED snapVars
       ELSE /\ last_speed_kph' = d.speedKph
            /\ cout' = IF SpeedExceeded(d.speedKph)
                       THEN <<SpeedExceededEvent(d.speedKph)>>
                       ELSE <<>>
            /\ UNCHANGED <<cl_moving, cl_any_door_open, cl_any_unfastened>>
    /\ cev' = SampleEvent("safety_speed", d)
    /\ cm_out' = <<>>
    /\ UNCHANGED <<child_mode_enabled, cm_enabled>>

\* The child_mode_activated / child_mode_deactivated events among those published.
ModeEvents(s) ==
    {i \in 1..Len(s) : s[i].topic = TOPIC_CHILDLOCK_EVENTS
                        /\ s[i].event \in {"child_mode_activated", "child_mode_deactivated"}}

LatestModeEvent(s, last) ==
    IF ModeEvents(s) = {} THEN last
    ELSE s[CHOOSE i \in ModeEvents(s) : \A j \in ModeEvents(s) : j <= i].event

\* The events of one name among those published on ext/safety/childLock/events.
Named(name, s) ==
    {i \in 1..Len(s) : s[i].topic = TOPIC_CHILDLOCK_EVENTS /\ s[i].event = name}

SampleKinds == {"safety_speed", "safety_door", "safety_seatbelt"}

\* A run of consecutive samples that each published the event: other calls
\* and samples without the event end it.
NextRun(name, n) ==
    IF cev'.kind \in SampleKinds /\ Named(name, cout') # {}
    THEN Min(n + 1, 2)
    ELSE 0

InitChildObservers ==
    /\ last_mode_event = "None"
    /\ cm_last_event = "None"
    /\ exceeded_run = 0
    /\ unfastened_run = 0

ObserveChild ==
    /\ last_mode_event' = LatestModeEvent(cout', last_mode_event)
    /\ cm_last_event' = LatestModeEvent(cm_out', cm_last_event)
    /\ exceeded_run' = NextRun("child_mode_speed_exceeded", exceeded_run)
    /\ unfastened_run' = NextRun("child_mode_unfastened_seatbelt", unfastened_run)

\* ---------------------------------------------------------------------------
\* The broker between ChildLockController and AutoLockApp

InitLink ==
    /\ cfgInbox = <<>>
    /\ forced = "none"
    /\ cm_child_threshold = child_lock_threshold_kph

\* The payloads of the messages on safety/config/autolock/set among those published.
CfgSetPayloads(s) ==
    LET sel == SelectSeq(s, LAMBDA m : m.topic = TOPIC_AUTOLOCK_CFG_SET)
    IN [i \in 1..Len(sel) |-> sel[i].payload]

\* client.publish(TOPIC_AUTOLOCK_CFG_SET, ...): the broker queues the message
\* for AutoLockApp.
Publishes ==
    /\ cfgInbox' = cfgInbox \o CfgSetPayloads(cout')
    /\ Len(cfgInbox') <= MaxInbox
    /\ forced' = IF child_mode_enabled' = child_mode_enabled THEN forced
                 ELSE IF child_mode_enabled' THEN "sent"
                 ELSE "none"

\* on_message with a message of vehicle/childLock/set.
ChildLockSetReceived(p) ==
    /\ handle_childlock_set(p)
    /\ ObserveChild
    /\ Publishes
    /\ UNCHANGED alVars

\* The presence-detector loop calling controller.set_child_mode.
DetectorSetsChildMode(b) ==
    /\ set_child_mode(b)
    /\ ObserveChild
    /\ Publishes
    /\ UNCHANGED alVars

\* The broker delivers the oldest queued message to AutoLockApp.on_cfg_set.
CfgSetDelivered ==
    /\ cfgInbox # <<>>
    /\ on_cfg_set(Head(cfgInbox))
    /\ cfgInbox' = Tail(cfgInbox)
    /\ forced' = IF forced = "sent" /\ cfgInbox' = <<>> THEN "handled" ELSE forced
    /\ UNCHANGED <<clVars, clObsVars>>

\* on_cfg_set with a message of another publisher.
CfgSetFromElsewhere(p) ==
    /\ on_cfg_set(p)
    /\ UNCHANGED <<clVars, clObsVars, cfgInbox, forced>>

\* ---------------------------------------------------------------------------
\* The AutoLock handlers as tasks: each runs to its next await, where the
\* other may run.

\* The threads that call _set_child_mode: the paho network thread started by
\* client.loop_start(), which runs on_message, and the main thread, which
\* runs the presence-detector loop.
Threads == {"mqtt", "detector"}

Call(pc, value) == [pc |-> pc, value |-> value]

InitTasks ==
    /\ dpc = "idle"
    /\ spc = "idle"
    /\ close_locks = 0
    /\ calls = [t \in Threads |-> Call("idle", FALSE)]
    /\ no_child_counter = 0
    /\ no_child_run = 0

\* on_door_status up to "await self.Vehicle.Speed.get()".
DoorStatusBegins ==
    /\ dpc = "idle"
    /\ doorInbox # <<>>
    /\ doorInbox' = Tail(doorInbox)
    /\ IF AnyOpenOf(Head(doorInbox)) = "None"
       THEN UNCHANGED <<any_door_open, dpc>>
       ELSE /\ any_door_open' = (AnyOpenOf(Head(doorInbox)) = "true")
            /\ dpc' = "read"
    /\ out' = <<>>
    /\ ev' = Event("door", NoValue, Head(doorInbox), NoValue)
    /\ UNCHANGED <<enabled, locked_state, pending_lock, stateFile, vehicleSpeed,
                   speedInbox, spc>>

\* on_door_status from the result of the read up to "await self._publish_lock()"
\* or to its return; any_open is the handler's local, equal to the flag it stored.
DoorStatusReads ==
    /\ dpc = "read"
    /\ \E speed_now \in {vehicleSpeed, NoValue} :
          /\ IF DoorsOpenedWhileMoving(any_door_open, speed_now)
             THEN /\ pending_lock' = TRUE
                  /\ out' = <<>>
                  /\ dpc' = "idle"
             ELSE IF PendingDoorsClosed(any_door_open, speed_now)
             THEN /\ out' = <<LockCmd>>
                  /\ dpc' = "publish"
                  /\ UNCHANGED pending_lock
             ELSE /\ out' = <<>>
                  /\ dpc' = "idle"
                  /\ UNCHANGED pending_lock
          /\ ev' = Event("door_read", NoValue, "", speed_now)
    /\ UNCHANGED <<enabled, locked_state, any_door_open, stateFile, vehicleSpeed,
                   speedInbox, doorInbox, spc>>

\* on_door_status after "await self._publish_lock()".
DoorStatusPublishes ==
    /\ dpc = "publish"
    /\ locked_state' = "locked"
    /\ pending_lock' = FALSE
    /\ dpc' = "idle"
    /\ out' = <<>>
    /\ ev' = Event("door_done", NoValue, "", NoValue)
    /\ UNCHANGED <<enabled, any_door_open, stateFile, vehicleSpeed, speedInbox,
                   doorInbox, spc>>

\* _on_speed_changed up to "await self._publish_lock()", to
\* "await self._publish_unlock()" or to its return.
SpeedChangedBegins ==
    /\ spc = "idle"
    /\ speedInbox # <<>>
    /\ speedInbox' = Tail(speedInbox)
    /\ LET speed == Head(speedInbox)
       IN /\ IF speed = NoValue \/ ~enabled
             THEN /\ out' = <<>>
                  /\ UNCHANGED <<pending_lock, spc>>
             ELSE IF AboveLock(speed)
             THEN IF any_door_open
                  THEN /\ pending_lock' = TRUE
                       /\ out' = <<>>
                       /\ UNCHANGED spc
                  ELSE IF NeedsLock
                  THEN /\ out' = <<LockCmd>>
                       /\ spc' = "lock"
                       /\ UNCHANGED pending_lock
                  ELSE /\ out' = <<>>
                       /\ UNCHANGED <<pending_lock, spc>>
             ELSE IF BelowUnlock(speed)
             THEN IF locked_state # "unlocked"
                  THEN /\ out' = <<UnlockCmd>>
                       /\ spc' = "unlock"
                       /\ UNCHANGED pending_lock
                  ELSE /\ out' = <<>>
                       /\ pending_lock' = FALSE
                       /\ UNCHANGED spc
             ELSE /\ out' = <<>>
                  /\ UNCHANGED <<pending_lock, spc>>
          /\ ev' = Event("speed", speed, "", NoValue)
    /\ UNCHANGED <<enabled, locked_state, any_door_open, stateFile, vehicleSpeed,
                   doorInbox, dpc>>

\* _on_speed_changed after the publish it awaited.
SpeedChangedPublishes ==
    /\ spc # "idle"
    /\ locked_state' = IF spc = "lock" THEN "locked" ELSE "unlocked"
    /\ pending_lock' = FALSE
    /\ spc' = "idle"
    /\ out' = <<>>
    /\ ev' = Event("speed_done", NoValue, "", NoValue)
    /\ UNCHANGED <<enabled, any_door_open, stateFile, vehicleSpeed, speedInbox,
                   doorInbox, dpc>>

\* ---------------------------------------------------------------------------
\* ChildLockController._set_child_mode called from two threads

\* Thread t enters _set_child_mode(value) and makes the comparison of line 84.
SetChildModeCompares(t, value) ==
    /\ calls[t].pc = "idle"
    /\ calls' = [calls EXCEPT ![t] =
                   IF value = child_mode_enabled THEN Call("idle", value)
                   ELSE Call("assign", value)]
    /\ cout' = <<>>
    /\ cev' = ChildEvent("compare", value, "", t, "")
    /\ UNCHANGED child_mode_enabled

\* Thread t executes "self.child_mode_enabled = enabled".
SetChildModeAssigns(t) ==
    /\ calls[t].pc = "assign"
    /\ child_mode_enabled' = calls[t].value
    /\ calls' = [calls EXCEPT ![t] = Call("publish", calls[t].value)]
    /\ cout' = <<>>
    /\ cev' = ChildEvent("assign", calls[t].value, "", t, "")

\* Thread t executes the publish calls of lines 91-106 and returns.
SetChildModePublishes(t) ==
    /\ calls[t].pc = "publish"
    /\ cout' = IF calls[t].value
               THEN <<AutoLockEnable,
                      ActivatedEvent(LOCK_ABOVE_KPH, CHILD_MODE_MAX_SPEED_KPH)>>
               ELSE <<DeactivatedEvent>>
    /\ calls' = [calls EXCEPT ![t] = Call("idle", calls[t].value)]
    /\ cev' = ChildEvent("publish", calls[t].value, "", t, "")
    /\ UNCHANGED child_mode_enabled

\* ---------------------------------------------------------------------------
\* The presence-detector loop of main()

DEBOUNCE_THRESHOLD == 3

\* One periodic detection that returned is_child (lines 404-420); a detection
\* that raises is logged and changes nothing.
Detects(is_child) ==
    /\ IF is_child
       THEN /\ no_child_counter' = 0
            /\ IF ~child_mode_enabled
               THEN SetChildMode(TRUE)
               ELSE cout' = <<>> /\ UNCHANGED child_mode_enabled
       ELSE IF child_mode_enabled
       THEN IF no_child_counter + 1 >= DEBOUNCE_THRESHOLD
            THEN /\ SetChildMode(FALSE)
                 /\ no_child_counter' = 0
            ELSE /\ no_child_counter' = no_child_counter + 1
                 /\ cout' = <<>>
                 /\ UNCHANGED child_mode_enabled
       ELSE /\ cout' = <<>>
            /\ UNCHANGED <<child_mode_enabled, no_child_counter>>
    /\ cev' = ChildEvent("detect", is_child, "", "", "")
    /\ cm_out' = <<>>
    /\ UNCHANGED <<cm_enabled, snapVars>>

\* on_message handling a set command between two detections.
SetCommandReceived(p) ==
    /\ handle_childlock_set(p)
    /\ UNCHANGED no_child_counter

\* The no-child detections in a row, made with child mode on, since child
\* mode was last switched on: a detection of a child and a switch to on
\* begin the count anew.
ObserveDetector ==
    no_child_run' =
        IF cev'.kind = "detect" /\ cev'.enabled THEN 0
        ELSE IF cev'.kind = "detect" /\ child_mode_enabled
        THEN Min(no_child_run + 1, DEBOUNCE_THRESHOLD)
        ELSE IF child_mode_enabled' /\ ~child_mode_enabled THEN 0
        ELSE no_child_run

\* The doors are reported closed after having been open, or open, or an
\* Unlock is published: the count of Lock commands starts anew.
ObserveTasks ==
    close_locks' =
        IF \/ ev'.kind = "door" /\ any_door_open' # any_door_open
           \/ ev'.kind = "door" /\ any_door_open'
           \/ CountOf(UnlockCmd, out') > 0
        THEN 0
        ELSE Min(close_locks + CountOf(LockCmd, out'), 2)

\* ---------------------------------------------------------------------------
\* Specifications

\* The AutoLock controller with its two event sources and its config input.
Init ==
    /\ InitAutoLock
    /\ InitObservers
    /\ InitLifetime
    /\ debounce_count = 1
    /\ InitGates
    /\ InitSafety
    /\ InitSafetyObservers
    /\ InitChild
    /\ InitChildObservers
    /\ InitLink
    /\ InitTasks

Next ==
    /\ \/ \E s \in Speeds : VehicleSpeedSet(s)
       \/ VehicleSpeedNoValue
       \/ \E p \in DoorPayloads : DoorStatusPublished(p)
       \/ on_speed_changed
       \/ on_door_status
       \/ \E p \in CfgPayloads : on_cfg_set(p)
    /\ Observe
    /\ UNCHANGED <<dbVars, lifeVars, sfVars, sfObsVars, clVars, clObsVars,
                   linkVars, taskVars>>

Spec == Init /\ [][Next]_vars

\* The AutoLock controller over successive lifetimes on one STATE_FILE, with
\* a speed below UNLOCK_BELOW_KPH, one in the dead band and one above
\* LOCK_ABOVE_KPH, and with well-formed door payloads.
LifeSpeeds == {UNLOCK_BELOW_KPH - 1, UNLOCK_BELOW_KPH, MaxSpeed}

InitLife == Init /\ vehicleSpeed \in LifeSpeeds

\* Payloads of safety/config/autolock/set: the texts of CfgPayloads, a padded
\* upper-case true and the JSON number 1.
LifeCfgPayloads == CfgPayloads \cup {" TRUE ", "1"}

NextLife ==
    /\ \/ \E s \in LifeSpeeds : VehicleSpeedSet(s)
       \/ \E p \in {"open", "closed"} : DoorStatusPublished(p)
       \/ on_speed_changed
       \/ on_door_status
       \/ \E p \in LifeCfgPayloads : on_cfg_set(p)
       \/ Restart
    /\ ObserveLifetime
    /\ UNCHANGED <<obsVars, dbVars, sfVars, sfObsVars, clVars, clObsVars,
                   linkVars, taskVars>>

SpecLife == InitLife /\ [][NextLife]_vars

\* The debounce gates alone, for every debounce count up to MaxDebounce.
InitTick ==
    /\ InitAutoLock /\ stateFile = "absent" /\ enabled /\ vehicleSpeed = MaxSpeed
    /\ InitObservers
    /\ InitLifetime
    /\ debounce_count \in 1..MaxDebounce
    /\ InitGates
    /\ InitSafety
    /\ InitSafetyObservers
    /\ InitChild
    /\ InitChildObservers
    /\ InitLink
    /\ InitTasks

NextTick ==
    /\ \E c \in BOOLEAN : TickGates(c)
    /\ UNCHANGED <<alVars, obsVars, lifeVars, sfVars, sfObsVars, clVars, clObsVars,
                   linkVars, taskVars>>

SpecTick == InitTick /\ [][NextTick]_vars

\* SafetyApp with its speed subscription and its door and seatbelt inputs, for
\* every debounce count up to MaxDebounce.
NextSafety ==
    /\ \/ \E value \in SafetySpeeds \cup {NoValue} : safety_on_speed_changed(value)
       \/ \E k \in DoorInputs, p \in BoolPayloads : on_door(k, p)
       \/ \E k \in Belts, p \in BoolPayloads : on_belt(k, p)
    /\ ObserveSafety
    /\ UNCHANGED <<alVars, obsVars, lifeVars, dbVars, clVars, clObsVars,
                   linkVars, taskVars>>

SpecSafety == InitTick /\ [][NextSafety]_vars

\* The two child-mode controllers, each call handled to completion.
NextChild ==
    /\ \/ \E p \in SetPayloads : handle_childlock_set(p)
       \/ \E b \in BOOLEAN : set_child_mode(b)
       \/ \E t \in UnlockTopics, p \in UnlockPayloads : handle_unlock_request(t, p)
       \/ \E b \in BOOLEAN : set_enabled(b)
       \/ \E d \in DoorPosition, src \in UnlockSource : is_unlock_allowed(d, src)
       \/ \E d \in SpeedSamples : handle_safety_speed(d)
       \/ \E d \in Samples : handle_safety_door(d)
       \/ \E d \in Samples : handle_safety_seatbelt(d)
    /\ ObserveChild
    /\ UNCHANGED <<alVars, obsVars, lifeVars, dbVars, sfVars, sfObsVars,
                   linkVars, taskVars>>

SpecChild == InitTick /\ [][NextChild]_vars

\* The running AutoLock controller with its handlers scheduled fairly: the
\* event loop runs the callback of every notification and of every message
\* that has arrived.
\* A speed below UNLOCK_BELOW_KPH and one above LOCK_ABOVE_KPH.
LiveSpeeds == {UNLOCK_BELOW_KPH - 1, MaxSpeed}

\* A controller started without a state file.
InitLive == Init /\ stateFile = "absent" /\ vehicleSpeed \in LiveSpeeds

NextLive ==
    /\ \/ \E s \in LiveSpeeds : VehicleSpeedSet(s)
       \/ \E p \in {"open", "closed"} : DoorStatusPublished(p)
       \/ on_speed_changed
       \/ on_door_status
       \/ \E p \in {"true", "false"} : on_cfg_set(p)
    /\ UNCHANGED <<obsVars, lifeVars, dbVars, sfVars, sfObsVars, clVars, clObsVars,
                   linkVars, taskVars>>

Live ==
    /\ WF_vars(NextLive /\ on_speed_changed)
    /\ WF_vars(NextLive /\ on_door_status)

SpecLive == InitLive /\ [][NextLive]_vars /\ Live

\* The enabled AutoLock controller with its two handlers run as tasks.
NextAwait ==
    /\ \/ \E s \in LiveSpeeds : VehicleSpeedSet(s) /\ UNCHANGED <<dpc, spc>>
       \/ \E p \in {"open", "closed"} : DoorStatusPublished(p) /\ UNCHANGED <<dpc, spc>>
       \/ DoorStatusBegins
       \/ DoorStatusReads
       \/ DoorStatusPublishes
       \/ SpeedChangedBegins
       \/ SpeedChangedPublishes
    /\ ObserveTasks
    /\ UNCHANGED <<calls, no_child_counter, no_child_run>>
    /\ UNCHANGED <<obsVars, lifeVars, dbVars, sfVars, sfObsVars, clVars, clObsVars,
                   linkVars>>

SpecAwait == InitLive /\ [][NextAwait]_vars

\* ChildLockController with on_message in the network thread and the
\* presence-detector loop in the main thread: a thread may be preempted
\* between any two statements of _set_child_mode.
NextThreads ==
    /\ \/ \E p \in SetPayloads : SetChildModeCompares("mqtt", EnabledOf(p))
       \/ \E b \in BOOLEAN : SetChildModeCompares("detector", b)
       \/ \E t \in Threads : SetChildModeAssigns(t)
       \/ \E t \in Threads : SetChildModePublishes(t)
    /\ UNCHANGED <<cm_enabled, cm_out, snapVars>>
    /\ ObserveChild
    /\ UNCHANGED <<alVars, obsVars, lifeVars, dbVars, sfVars, sfObsVars, linkVars,
                   dpc, spc, close_locks, no_child_counter, no_child_run>>

SpecThreads == InitTick /\ [][NextThreads]_vars

\* ChildLockController with the presence-detector loop and set commands,
\* each detection and each command handled to completion.
NextDetector ==
    /\ \/ \E is_child \in BOOLEAN : Detects(is_child)
       \/ \E p \in SetPayloads : SetCommandReceived(p)
    /\ ObserveChild
    /\ ObserveDetector
    /\ UNCHANGED <<alVars, obsVars, lifeVars, dbVars, sfVars, sfObsVars, linkVars,
                   dpc, spc, close_locks, calls>>

SpecDetector == InitTick /\ [][NextDetector]_vars

\* ChildLockController and AutoLockApp on one broker: what the child
\* controller publishes on safety/config/autolock/set is delivered, in order,
\* to AutoLockApp.on_cfg_set, which other publishers address as well.
NextForce ==
    /\ \/ \E p \in SetPayloads : ChildLockSetReceived(p)
       \/ \E b \in BOOLEAN : DetectorSetsChildMode(b)
       \/ CfgSetDelivered
       \/ \E p \in CfgPayloads : CfgSetFromElsewhere(p)
    /\ UNCHANGED <<obsVars, lifeVars, dbVars, sfVars, sfObsVars, cm_child_threshold,
                   taskVars>>

SpecForce == Init /\ [][NextForce]_vars

\* child_lock_threshold_kph of the ChildModeConfig handed to the
\* constructor: the default and a stricter one.
ChildThresholds == {child_lock_threshold_kph, UNLOCK_BELOW_KPH}

\* AutoLockApp next to a ChildModeController constructed with one of the
\* ChildThresholds.
InitPolicy ==
    /\ InitAutoLock
    /\ InitObservers
    /\ InitLifetime
    /\ debounce_count = 1
    /\ InitGates
    /\ InitSafety
    /\ InitSafetyObservers
    /\ InitChild
    /\ InitChildObservers
    /\ cfgInbox = <<>>
    /\ forced = "none"
    /\ cm_child_threshold \in ChildThresholds
    /\ InitTasks

NextPolicy ==
    /\ \/ /\ \/ \E s \in Speeds : VehicleSpeedSet(s)
             \/ \E p \in {"open", "closed"} : DoorStatusPublished(p)
             \/ on_speed_changed
             \/ on_door_status
             \/ \E p \in CfgPayloads : on_cfg_set(p)
          /\ UNCHANGED <<clVars, clObsVars>>
       \/ /\ \E b \in BOOLEAN : set_enabled(b)
          /\ ObserveChild
          /\ UNCHANGED alVars
    /\ UNCHANGED <<obsVars, lifeVars, dbVars, sfVars, sfObsVars, linkVars, taskVars>>

SpecPolicy == InitPolicy /\ [][NextPolicy]_vars

\* ChildModeVApp over a ChildModeController constructed with one of the
\* ChildThresholds: its three calls.
NextThreshold ==
    /\ \/ \E b \in BOOLEAN : set_enabled(b)
       \/ \E speed \in ChildSpeeds, base \in BaseThresholds : handle_speed(speed, base)
       \/ \E d \in DoorPosition, src \in UnlockSource : is_unlock_allowed(d, src)
    /\ ObserveChild
    /\ UNCHANGED <<alVars, obsVars, lifeVars, dbVars, sfVars, sfObsVars, linkVars,
                   taskVars>>

SpecThreshold == InitPolicy /\ [][NextThreshold]_vars

\* ---------------------------------------------------------------------------
\* Claims about AutoLockApp (checked under Spec)

InDeadBand(speed) ==
    speed # NoValue /\ speed >= UNLOCK_BELOW_KPH /\ speed <= LOCK_ABOVE_KPH

\* C1: an enabled controller handling a speed sample s with
\* UNLOCK_BELOW_KPH <= s <= LOCK_ABOVE_KPH publishes nothing and leaves
\* locked_state and pending_lock unchanged.
C1_DeadBand ==
    [][(ev'.kind = "speed" /\ enabled /\ InDeadBand(ev'.speed))
        => (out' = <<>> /\ UNCHANGED <<locked_state, pending_lock>>)]_vars

\* A dead-band sample at the lock threshold itself was handled while a lock was pending.
C1_Witness ==
    /\ ev.kind = "speed" /\ ev.speed = LOCK_ABOVE_KPH
    /\ enabled /\ pending_lock /\ out = <<>>

\* C2: from a fresh, enabled start with doors closed, a run of samples all
\* > LOCK_ABOVE_KPH has published exactly one Lock (and no Unlock) after each of
\* its samples, and a following run of samples all < UNLOCK_BELOW_KPH has
\* published exactly one Unlock (and no further Lock) after each of its samples.
C2_OneLockOneUnlock ==
    /\ phase = "high" => (locks = 1 /\ unlocks = 0)
    /\ phase = "low" => (locks = 1 /\ unlocks = 1)

\* A second or later low sample of such a run was handled and published nothing.
C2_Witness ==
    /\ phase = "low" /\ ev.kind = "speed" /\ ev.speed # NoValue
    /\ out = <<>> /\ locks = 1 /\ unlocks = 1

\* C3: (a) an enabled, not locked controller handling a doors-open event at a
\* live speed > LOCK_ABOVE_KPH sets pending_lock and publishes no Lock; (b) the
\* next doors-closed event, handled by the enabled controller at a live speed
\* still > LOCK_ABOVE_KPH, publishes exactly one Lock and leaves
\* locked_state = "locked", pending_lock = FALSE.
C3_PendingThenLock ==
    [][/\ (ev'.kind = "door" /\ AnyOpenOf(ev'.payload) = "true" /\ enabled
           /\ locked_state # "locked" /\ ev'.live > LOCK_ABOVE_KPH)
          => (pending_lock' /\ NoLock(out'))
       /\ (armed /\ enabled /\ ev'.kind = "door" /\ AnyOpenOf(ev'.payload) = "false"
           /\ ev'.live > LOCK_ABOVE_KPH)
          => (out' = <<LockCmd>> /\ locked_state' = "locked" /\ ~pending_lock')]_vars

\* The deferred Lock was published by a doors-closed event of an enabled controller.
C3_Witness ==
    /\ ev.kind = "door" /\ ev.payload = "closed" /\ ev.live > LOCK_ABOVE_KPH
    /\ enabled /\ out = <<LockCmd>> /\ locked_state = "locked" /\ ~pending_lock

\* C4: while enabled is false, no speed sample and no door-status event
\* publishes a Lock or an Unlock command.
C4_DisabledNoCommand ==
    (~enabled /\ ev.kind \in {"speed", "door"}) => NoCommand(out)

\* C5: while enabled is false, handling a speed sample or a door-status event
\* leaves locked_state, pending_lock and any_door_open unchanged.
C5_DisabledNoMutation ==
    [][(~enabled /\ ev'.kind \in {"speed", "door"})
        => UNCHANGED <<locked_state, pending_lock, any_door_open>>]_vars

\* C6: when a door has opened and the speed has risen above LOCK_ABOVE_KPH, then
\* whichever of the two notifications is handled first, no Lock is published
\* while handling them and pending_lock is true once both are handled.
C6_OrderIndependent ==
    /\ race # "idle" => NoLock(out)
    /\ race = "done" => pending_lock

\* C7: an enabled controller with pending_lock handling a sample
\* < UNLOCK_BELOW_KPH clears pending_lock, publishes no Lock, and publishes an
\* Unlock if it was locked; afterwards no door event publishes a Lock for as
\* long as the speed has not exceeded LOCK_ABOVE_KPH again.
C7_PendingClearsOnSlowdown ==
    [][/\ (ev'.kind = "speed" /\ enabled /\ pending_lock
           /\ ev'.speed # NoValue /\ ev'.speed < UNLOCK_BELOW_KPH)
          => (~pending_lock' /\ NoLock(out')
              /\ (locked_state = "locked" => out' = <<UnlockCmd>>))
       /\ (slowed /\ ev'.kind = "door") => (NoLock(out') /\ ~pending_lock')]_vars

\* After such a slowdown, a doors-closed event with a successful speed read was
\* handled and published nothing.
C7_Witness ==
    /\ slowed /\ ev.kind = "door" /\ ev.payload = "closed" /\ ev.live # NoValue
    /\ enabled /\ out = <<>> /\ ~pending_lock

\* C8: pending_lock implies that any_door_open is true, that locked_state is not
\* "locked" and that the most recently observed speed exceeds LOCK_ABOVE_KPH.
C8_PendingInvariant ==
    pending_lock => (any_door_open /\ locked_state # "locked" /\ seen_above)

\* C17: an enabled controller handling a sample > LOCK_ABOVE_KPH publishes a
\* Lock if and only if any_door_open is false and locked_state is not "locked",
\* and then leaves locked_state = "locked" and pending_lock = FALSE; when
\* any_door_open is true it publishes nothing and changes only pending_lock, to
\* TRUE.  After a Lock published by either handler pending_lock is FALSE.
C17_LockSide ==
    [][/\ (ev'.kind = "speed" /\ enabled /\ ev'.speed # NoValue
           /\ ev'.speed > LOCK_ABOVE_KPH)
          => /\ ~NoLock(out') <=> (~any_door_open /\ locked_state # "locked")
             /\ ~NoLock(out')
                => (out' = <<LockCmd>> /\ locked_state' = "locked" /\ ~pending_lock')
             /\ any_door_open
                => (out' = <<>> /\ pending_lock'
                    /\ UNCHANGED <<locked_state, any_door_open, enabled>>)
       /\ ~NoLock(out') => ~pending_lock']_vars

\* A sample > LOCK_ABOVE_KPH was handled with the doors closed and published the Lock.
C17_Witness ==
    /\ ev.kind = "speed" /\ ev.speed > LOCK_ABOVE_KPH /\ enabled
    /\ ~any_door_open /\ out = <<LockCmd>> /\ locked_state = "locked" /\ ~pending_lock

\* C18: an enabled controller handling a sample < UNLOCK_BELOW_KPH publishes an
\* Unlock whenever locked_state is not "unlocked", a controller that has never
\* published a Lock (locked_state None) included, and publishes nothing when
\* locked_state is already "unlocked".
C18_UnlockSide ==
    [][(ev'.kind = "speed" /\ enabled /\ ev'.speed # NoValue
        /\ ev'.speed < UNLOCK_BELOW_KPH)
        => IF locked_state # "unlocked"
           THEN out' = <<UnlockCmd>> /\ locked_state' = "unlocked"
           ELSE out' = <<>> /\ locked_state' = "unlocked"]_vars

\* A controller that never published a Lock handled a sample < UNLOCK_BELOW_KPH
\* and published an Unlock.
C18_Witness ==
    /\ ev.kind = "speed" /\ ev.speed # NoValue /\ ev.speed < UNLOCK_BELOW_KPH
    /\ enabled /\ ~ever_locked /\ out = <<UnlockCmd>> /\ locked_state = "unlocked"

\* C19: every valid config command, whether or not it changes enabled, publishes
\* exactly one config-state event carrying the value of enabled after the
\* command, and changes none of locked_state, pending_lock, any_door_open.
C19_CfgHeartbeat ==
    [][(ev'.kind = "cfg" /\ NewEnabledOf(ev'.payload) # "None")
        => /\ enabled' = (NewEnabledOf(ev'.payload) = "true")
           /\ out' = <<EnabledState(enabled')>>
           /\ UNCHANGED <<locked_state, pending_lock, any_door_open>>]_vars

\* A valid command that did not change enabled was handled, by a controller
\* whose flag no command has changed, while a lock was pending.
C19_Witness ==
    /\ ev.kind = "cfg" /\ ev.payload = "true" /\ changed_to = "None" /\ enabled
    /\ out = <<EnabledState(TRUE)>> /\ pending_lock

\* What C20 says of the controller a restart constructs, for the value v.
StartsWith(v) ==
    /\ enabled' = (v = "true")
    /\ locked_state' = "None"
    /\ pending_lock' = FALSE
    /\ any_door_open' = FALSE
    /\ out' = <<EnabledState(v = "true")>>

NthConsecutive(r, s) ==
    /\ r = "activated" <=> (cond /\ ~was_active /\ run = debounce_count)
    /\ r = "cleared" <=> (~cond /\ was_active /\ run = debounce_count)
    /\ (cond /\ ~s.active) => run < debounce_count
    /\ (~cond /\ s.active) => run < debounce_count
    /\ debounce_count = 1 => (s.active = cond /\ (r # "None" <=> was_active # cond))

\* C9: Activated is returned exactly on the debounce_count-th tick of a run of
\* true ticks that the gate entered inactive, Cleared exactly on the
\* debounce_count-th tick of a run of false ticks that it entered active; with
\* debounce_count = 1 the gate's active flag is the last condition and a
\* transition is returned exactly when the condition differs from it.
C9_NthConsecutive ==
    ticks > 0 => (NthConsecutive(ret, st) /\ NthConsecutive(mret, mon))

\* The gate cleared on the debounce_count-th false tick, debounce_count >= 2.
C9_Witness ==
    /\ debounce_count >= 2 /\ ret = "cleared" /\ mret = "cleared"
    /\ run = debounce_count /\ ~cond

\* C10: a tick returns a transition exactly when it flips the active flag, and
\* transitions alternate beginning with Activated.
C10_TransitionsAlternate ==
    ticks > 0 =>
      /\ ret # "None" <=> st.active # was_active
      /\ ret = "activated" => (st.active /\ prev_tr \in {"None", "cleared"})
      /\ ret = "cleared" => (~st.active /\ prev_tr = "activated")
      /\ mret # "None" <=> mon.active # was_active
      /\ mret = "activated" => (mon.active /\ prev_tr \in {"None", "cleared"})
      /\ mret = "cleared" => (~mon.active /\ prev_tr = "activated")

\* A true tick arrived while the gate was already active, after it had been
\* activated, cleared and activated again, and returned nothing.
C10_Witness ==
    /\ cond /\ was_active /\ st.active /\ ret = "None" /\ mret = "None"
    /\ prev_tr = "activated" /\ run >= 2 /\ ticks >= 4

\* ---------------------------------------------------------------------------
\* Claims about SafetyApp (checked under SpecSafety)

NoAlert(s) == OnTopic(topic_door, s) = {} /\ OnTopic(topic_seatbelt, s) = {}

\* C15: as long as no speed > threshold_kph has been received, nothing is
\* published on ext/safety/door or ext/safety/seatbelt, whatever door and belt
\* inputs arrive and for every debounce count.
C15_NoAlertBeforeMoving ==
    ~ever_moved => NoAlert(pub)

\* At a speed equal to threshold_kph, never exceeded, with a door open and a
\* belt unfastened, a handler evaluated and published nothing.
C15_Witness ==
    /\ ~ever_moved /\ speed_kph = threshold_kph /\ sev.evaluated
    /\ OpenDoors(doors_open) # {} /\ Unfastened(belts_fastened) # {}
    /\ evals > MaxDebounce /\ pub = <<>>

\* C16: with the door alert active and debounce count N, the evaluation that
\* is the N-th in a row to see speed <= threshold_kph publishes a door payload
\* with state cleared and moving false, carrying the doors still open.
C16_ClearsOnSpeedDrop ==
    [][(sev'.evaluated /\ door_state.active /\ speed_kph' <= threshold_kph
        /\ still_run' >= debounce_count)
        => \E i \in OnTopic(topic_door, pub') :
              /\ pub'[i].state = "cleared"
              /\ pub'[i].moving = FALSE
              /\ pub'[i].items = OpenDoors(doors_open')]_vars

\* With the largest debounce count, the alert was cleared by the speed while a
\* door was open.
C16_Witness ==
    /\ debounce_count = MaxDebounce /\ still_run = debounce_count
    /\ sev.dr_change = "cleared" /\ OpenDoors(doors_open) # {}
    /\ \E i \in OnTopic(topic_door, pub) :
          pub[i].state = "cleared" /\ ~pub[i].moving /\ pub[i].items # {}

\* What C12 says of one topic: gate state s before the evaluation, items and
\* now the set before and after it, change the value the gate's tick returned.
RepublishOnContent(topic, s, items, now, change) ==
    (/\ sev'.evaluated /\ s.active /\ last_moving /\ Moving(speed_kph')
     /\ now # items /\ now # {})
    => /\ Cardinality(OnTopic(topic, pub')) = 1
       /\ \A i \in OnTopic(topic, pub') :
             pub'[i].state = "active" /\ pub'[i].items = now /\ pub'[i].moving
       /\ change = "None"

\* C12: while the door (seatbelt) alert is active and the vehicle was moving at
\* the previous evaluation and is moving at this one, an evaluation in which
\* the set of open doors (unfastened belts) has changed to a different non-empty
\* set publishes exactly one payload on that topic, with state active and the
\* current set, and the gate returns no transition.
C12_RepublishOnContent ==
    [][/\ RepublishOnContent(topic_door, door_state, OpenDoors(doors_open),
                             OpenDoors(doors_open'), sev'.dr_change)
       /\ RepublishOnContent(topic_seatbelt, sb_state, Unfastened(belts_fastened),
                             Unfastened(belts_fastened'), sev'.sb_change)]_vars

\* A second door was opened during an active door alert under a debounce
\* count above 1, and the payload with both doors was published.
C12_Witness ==
    /\ debounce_count >= 2 /\ sev.kind = "door" /\ sev.evaluated /\ ~sev.same
    /\ sev.dr_change = "None" /\ door_state.active
    /\ Cardinality(OnTopic(topic_door, pub)) = 1
    /\ \A i \in OnTopic(topic_door, pub) :
          pub[i].state = "active" /\ Cardinality(pub[i].items) = 2

\* The "only if" of C11 for one topic: s is the gate after the evaluation.
EmitsOnlyIf(topic, change, s, now, shown) ==
    OnTopic(topic, pub') # {}
    => \/ change # "None"
       \/ s.active /\ (now # shown \/ Moving(speed_kph') # last_moving)

\* C11 as stated: a payload is published on the door (seatbelt) topic only if
\* the gate returned a transition in that evaluation, or the gate is active
\* and the set differs from the one last published or moving differs from the
\* previous evaluation; and a handler that leaves speed, doors and belts as the
\* previous one left them publishes nothing on either topic.
C11_AsStated ==
    [][/\ EmitsOnlyIf(topic_door, sev'.dr_change, door_state',
                      OpenDoors(doors_open'), shown_doors)
       /\ EmitsOnlyIf(topic_seatbelt, sev'.sb_change, sb_state',
                      Unfastened(belts_fastened'), shown_belts)
       /\ (evals > 0 /\ sev'.same) => NoAlert(pub')]_vars

\* C11, amended: the same, but an evaluation identical to the previous one
\* publishes nothing on a topic unless that topic's gate returns a transition
\* in it (the N-th of N identical evaluations, N being the debounce count).
C11_EmitsOnlyOnChange ==
    [][/\ EmitsOnlyIf(topic_door, sev'.dr_change, door_state',
                      OpenDoors(doors_open'), shown_doors)
       /\ EmitsOnlyIf(topic_seatbelt, sev'.sb_change, sb_state',
                      Unfastened(belts_fastened'), shown_belts)
       /\ (evals > 0 /\ sev'.same /\ sev'.dr_change = "None")
          => OnTopic(topic_door, pub') = {}
       /\ (evals > 0 /\ sev'.same /\ sev'.sb_change = "None")
          => OnTopic(topic_seatbelt, pub') = {}]_vars

\* During an active door alert a handler left every input as it was, and
\* nothing was published on either topic.
C11_Witness ==
    /\ evals > 1 /\ sev.same /\ sev.evaluated /\ sev.kind = "door"
    /\ door_state.active /\ Moving(speed_kph) /\ NoAlert(pub)

\* What C35 says of the payloads of one topic as stated: change is the value
\* the topic's gate returned in the evaluation that published them.
ActiveIsMoving(topic, change) ==
    \A i \in OnTopic(topic, pub) :
       /\ pub[i].state = "active" => (pub[i].moving /\ pub[i].any)
       /\ pub[i].state = "cleared" => change = "cleared"

\* C35 as stated: every payload published with state active has moving true
\* and a non-empty member list, for every debounce count; every payload with
\* state cleared is published in the evaluation in which the gate fired Cleared.
C35_AsStated ==
    /\ ActiveIsMoving(topic_door, sev.dr_change)
    /\ ActiveIsMoving(topic_seatbelt, sev.sb_change)

\* The same of one topic, s being the topic's gate after the evaluation: the
\* condition held in the evaluation exactly if it left s.down at 0.
ActiveIsMovingWhileHeld(topic, change, s) ==
    \A i \in OnTopic(topic, pub) :
       /\ (pub[i].state = "active" /\ (debounce_count = 1 \/ s.down = 0))
             => (pub[i].moving /\ pub[i].any)
       /\ (pub[i].state = "active" /\ ~(pub[i].moving /\ pub[i].any))
             => (s.active /\ s.down \in 1..(debounce_count - 1) /\ change = "None")
       /\ pub[i].state = "cleared" => change = "cleared"

\* C35, amended: a payload published with state active has moving true and a
\* non-empty member list if the debounce count is 1 or the gate's condition
\* held in the evaluation that published it; with a debounce count N above 1
\* the payloads republished during the first N-1 evaluations that see the
\* condition gone carry state active with moving false or an empty list.
\* Every payload with state cleared is published in the evaluation in which
\* the gate fired Cleared.
C35_ActiveWhileHeld ==
    /\ ActiveIsMovingWhileHeld(topic_door, sev.dr_change, door_state)
    /\ ActiveIsMovingWhileHeld(topic_seatbelt, sev.sb_change, sb_state)

\* Under a debounce count above 1 the speed fell to the threshold during an
\* active door alert, and the payload republished for it says active, not
\* moving, with the doors still open.
C35_Witness ==
    /\ debounce_count >= 2 /\ sev.evaluated /\ sev.dr_change = "None"
    /\ door_state.active /\ door_state.down = 1
    /\ \E i \in OnTopic(topic_door, pub) :
          pub[i].state = "active" /\ ~pub[i].moving /\ pub[i].any

\* ---------------------------------------------------------------------------
\* Claims about child mode (checked under SpecChild)

EventsFollowFlag(before, after, published, last) ==
    /\ Cardinality(ModeEvents(published)) = IF after # before THEN 1 ELSE 0
    /\ \A i \in ModeEvents(published) :
          /\ published[i].event = IF after THEN "child_mode_activated"
                                  ELSE "child_mode_deactivated"
          /\ published[i].event = "child_mode_activated"
             => last \in {"None", "child_mode_deactivated"}
          /\ published[i].event = "child_mode_deactivated"
             => last = "child_mode_activated"

\* C14: with the set commands handled one at a time, a child_mode_activated or
\* child_mode_deactivated event is published exactly when the enabled flag
\* changes value; a command repeating the current value publishes nothing, and
\* the two events strictly alternate, beginning with child_mode_activated.
C14_EventsFollowFlag ==
    [][/\ EventsFollowFlag(child_mode_enabled, child_mode_enabled', cout', last_mode_event)
       /\ EventsFollowFlag(cm_enabled, cm_enabled', cm_out', cm_last_event)
       /\ (cev'.kind \in {"childlock_set", "set_child_mode"}
           /\ cev'.enabled = child_mode_enabled) => cout' = <<>>
       /\ (cev'.kind = "set_enabled" /\ cev'.enabled = cm_enabled) => cm_out' = <<>>]_vars

\* A set command repeating "on" was handled after child mode had been turned
\* on, off and on again, and published nothing.
C14_Witness ==
    /\ cev.kind = "childlock_set" /\ cev.enabled /\ child_mode_enabled
    /\ cout = <<>> /\ last_mode_event = "child_mode_activated"
    /\ cm_enabled /\ cm_last_event = "child_mode_activated"

\* ---------------------------------------------------------------------
\* Claims checked under Spec: inputs the AutoLock controller cannot use.

\* The controller's door flag, pending lock and latch are as before the step
\* and the step published no command.
Dropped ==
    /\ UNCHANGED <<any_door_open, pending_lock, locked_state>>
    /\ NoCommand(out')

\* C26: a door-status payload that fails to parse or lacks the anyOpen
\* field, and a speed sample with a missing value, leave anyDoorOpen,
\* pendingLock and lockedState unchanged and issue no command.
C26_InvalidInputDropped ==
    [][(\/ ev'.kind = "door" /\ ev'.payload \in {"malformed", "no_anyOpen"}
        \/ ev'.kind = "speed" /\ ev'.speed = NoValue)
         => Dropped]_vars

\* ---------------------------------------------------------------------
\* Claims checked under SpecLife: rejected inputs of the AutoLock controller.

\* Payloads that are neither the text true/false nor a JSON boolean.
InvalidCfgPayloads == {"invalid", "1"}

\* C28: on_cfg_set with a payload that is neither the text true/false
\* (trimmed, case-insensitive) nor a JSON boolean leaves enabled and the
\* persisted value unchanged and publishes nothing.
C28_InvalidCfgIgnored ==
    [][(ev'.kind = "cfg" /\ ev'.payload \in InvalidCfgPayloads)
         => /\ out' = <<>>
            /\ UNCHANGED <<enabled, stateFile>>]_vars

\* The JSON number 1 was sent to a controller that a command had turned off
\* and whose store holds false: it is still off and nothing was published.
C28_Witness ==
    /\ ev.kind = "cfg" /\ ev.payload = "1"
    /\ changed_to = "false" /\ ~enabled /\ stateFile = "false"
    /\ out = <<>>

\* C27: when the live speed cannot be read during a door-status event the
\* controller skips the pending-lock decision: it publishes no command and
\* leaves pendingLock and lockedState as they were, recording only
\* anyDoorOpen; the decision is taken by the next event that has a speed
\* above LOCK_ABOVE_KPH: with a door open the lock becomes pending, with
\* the doors closed a speed sample or a pending lock publishes the Lock.
C27_SkipsWhenSpeedUnread ==
    [][/\ (ev'.kind = "door" /\ AnyOpenOf(ev'.payload) # "None" /\ ev'.live = NoValue)
            => /\ out' = <<>>
               /\ UNCHANGED <<pending_lock, locked_state>>
               /\ any_door_open' = (AnyOpenOf(ev'.payload) = "true")
       /\ (/\ skip = "skipped" /\ enabled /\ locked_state # "locked"
           /\ \/ ev'.kind = "speed" /\ ev'.speed > LOCK_ABOVE_KPH
              \/ ev'.kind = "door" /\ ev'.live > LOCK_ABOVE_KPH)
            => IF any_door_open'
               THEN pending_lock' /\ out' = <<>>
               ELSE (ev'.kind = "speed" \/ pending_lock)
                      => /\ out' = <<LockCmd>>
                         /\ locked_state' = "locked"
                         /\ ~pending_lock']_vars

\* A doors-closed event that could not read the speed left the lock pending,
\* and the doors-closed event after it, at a speed above LOCK_ABOVE_KPH,
\* published the Lock.
C27_Witness ==
    /\ skip = "retaken"
    /\ ev.kind = "door" /\ ev.payload = "closed" /\ ev.live > LOCK_ABOVE_KPH
    /\ out = <<LockCmd>> /\ locked_state = "locked" /\ ~pending_lock

\* ---------------------------------------------------------------------
\* Claims checked under SpecSafety: inputs the safety app cannot use.

\* Payloads that are none of true/1/on/yes/false/0/off/no.
UnrecognisedBool == {"2", "junk"}

\* C25: a door or belt input whose payload is not a recognisable boolean,
\* and a speed update whose value is missing, is dropped: the door map, the
\* belt map, the stored speed and both debounce states are unchanged and
\* nothing is published on any topic.
C25_InvalidInputDropped ==
    [][(\/ \E k \in DoorInputs, p \in UnrecognisedBool : on_door(k, p)
        \/ \E k \in Belts, p \in UnrecognisedBool : on_belt(k, p)
        \/ safety_on_speed_changed(NoValue))
         => /\ UNCHANGED <<doors_open, belts_fastened, speed_kph, sb_state, door_state>>
            /\ pub' = <<>>]_vars

\* ---------------------------------------------------------------------
\* Claims checked under SpecTick: the counters of a gate.

OneCounter(s) == s.up = 0 \/ s.down = 0

\* C30: in every reachable state of every debounce gate at most one of
\* the counters up and down is non-zero: a tick that counts one of them
\* sets the other to zero.
C30_OneCounterNonZero ==
    /\ OneCounter(st)
    /\ OneCounter(mon)
    /\ OneCounter(sb_state)
    /\ OneCounter(door_state)

\* The gate was activated (up had reached the debounce count) and has
\* since counted two false ticks: up was reset when down began to count.
C30_Witness ==
    /\ st.active /\ st.down >= 2 /\ st.up = 0
    /\ mon.active /\ mon.down >= 2 /\ mon.up = 0
    /\ debounce_count = MaxDebounce

\* C38: the three debounce implementations (_tick of safety_vapp.py,
\* SafetyMonitor._update, SafetyLogic._update) are equivalent: fed the same
\* condition sequence with the same debounce count from the initial state,
\* they return the same transition at every tick and reach the same
\* (active, up, down) state.
C38_GatesEquivalent ==
    /\ ret = mret /\ mret = lret
    /\ st = mon /\ mon = lg

\* With debounce count 1 the three gates were activated, cleared and
\* activated again by the same ticks.
C38_Witness ==
    /\ debounce_count = 1 /\ ticks >= 3 /\ prev_tr = "cleared"
    /\ ret = "activated" /\ mret = "activated" /\ lret = "activated"
    /\ st.active /\ mon.active /\ lg.active

\* ---------------------------------------------------------------------
\* Claims checked under SpecChild: payloads of vehicle/childLock/set.

\* The texts that spell a boolean value, stripped and lower-cased.
BooleanTexts == {"on", "1", "true", "yes", "off", "0", "false", "no"}

\* C29: handle_childlock_set with a payload that is not a recognisable
\* boolean value leaves the child-mode enabled flag unchanged and emits no
\* event.
C29_InvalidSetIgnored ==
    [][(cev'.kind = "childlock_set" /\ StripLower(cev'.source) \notin BooleanTexts)
         => /\ UNCHANGED child_mode_enabled
            /\ cout' = <<>>]_vars

\* ---------------------------------------------------------------------
\* Claims checked under SpecChild: the alerts raised on safety samples.

\* The step handled a sample that json.loads accepted.
SampleHandled(kinds) == cev'.kind \in kinds /\ cev'.sample.ok

\* C21: while child mode is enabled every speed, door or seatbelt sample
\* whose speedKph is strictly greater than CHILD_MODE_MAX_SPEED_KPH
\* publishes exactly one child_mode_speed_exceeded event, whatever the
\* samples before it published; a sample at or below the ceiling, and any
\* sample while child mode is disabled, publishes none.
C21_SpeedExceeded ==
    [][SampleHandled(SampleKinds)
         => LET speed == cev'.sample.speedKph
                sent == Named("child_mode_speed_exceeded", cout')
            IN IF child_mode_enabled /\ speed > CHILD_MODE_MAX_SPEED_KPH
               THEN /\ Cardinality(sent) = 1
                    /\ \A i \in sent : cout'[i] = SpeedExceededEvent(speed)
               ELSE sent = {}]_vars

\* The second of two consecutive samples above the ceiling, a door sample
\* after any sample, has published the event again.
C21_Witness ==
    /\ exceeded_run = 2
    /\ cev.kind = "safety_door" /\ cev.sample.speedKph > CHILD_MODE_MAX_SPEED_KPH
    /\ child_mode_enabled
    /\ Cardinality(Named("child_mode_speed_exceeded", cout)) = 1

\* C22: a seatbelt sample publishes a child_mode_unfastened_seatbelt event
\* iff child mode is enabled, moving is true and anyUnfastened is true; a
\* door sample publishes that event iff child mode is enabled, moving is
\* true and anyOpen is true; on every such sample, without debounce.
C22_UnfastenedAlert ==
    [][SampleHandled({"safety_seatbelt", "safety_door"})
         => LET d == cev'.sample
                sent == Named("child_mode_unfastened_seatbelt", cout')
                field == IF cev'.kind = "safety_door" THEN "any_door_open"
                         ELSE "unfastened"
            IN IF child_mode_enabled /\ d.moving /\ d.any
               THEN /\ Cardinality(sent) = 1
                    /\ \A i \in sent :
                          cout'[i] = UnfastenedEvent(d.speedKph, field, d.items)
               ELSE sent = {}]_vars

\* The second of two consecutive samples with moving and anyUnfastened
\* true, a seatbelt sample at a standing speedKph, has published the event
\* again.
C22_Witness ==
    /\ unfastened_run = 2
    /\ cev.kind = "safety_seatbelt" /\ cev.sample.moving /\ cev.sample.any
    /\ child_mode_enabled
    /\ Cardinality(Named("child_mode_unfastened_seatbelt", cout)) = 1

\* ---------------------------------------------------------------------
\* Claims checked under SpecForce: child mode forcing AutoLock on.

\* What C23 says of the publishing side: a change of child mode from off
\* to on queues exactly one "true" for AutoLock, and a change from on to off
\* queues nothing and leaves AutoLock's flag and its store alone.
OneWayEnable ==
    /\ (~child_mode_enabled /\ child_mode_enabled')
         => /\ CountOf(AutoLockEnable, cout') = 1
            /\ cfgInbox' = Append(cfgInbox, "true")
    /\ (child_mode_enabled /\ ~child_mode_enabled')
         => /\ CfgSetPayloads(cout') = <<>>
            /\ UNCHANGED <<cfgInbox, enabled, stateFile>>

\* The step handled the oldest queued message, an enable message.
EnableHandled ==
    /\ cfgInbox # <<>> /\ Head(cfgInbox) = "true"
    /\ cfgInbox' = Tail(cfgInbox)

C36_StaysForcedOn ==
    (child_mode_enabled /\ forced = "handled") => enabled

\* ---------------------------------------------------------------------
\* Claims checked under SpecPolicy: the lock threshold in child mode.

\* C24: every time the AutoLock controller evaluates a speed sample it uses
\* the effective lock threshold of the child-mode policy: the lock /
\* pending-lock decision is taken exactly when the speed is above
\* child_lock_threshold_kph while child mode is enabled, and above the
\* normal lock threshold otherwise.
C24_UsesPolicyThreshold ==
    [][(ev'.kind = "speed" /\ ev'.speed # NoValue /\ enabled)
         => IF ev'.speed > get_lock_threshold_kph(LOCK_ABOVE_KPH)
            THEN IF any_door_open THEN pending_lock' /\ NoLock(out')
                 ELSE locked_state' = "locked" /\ ~pending_lock'
            ELSE NoLock(out') /\ (pending_lock' => pending_lock)]_vars

\* ---------------------------------------------------------------------
\* Claims checked under Spec: the commands of one AutoLock run.

\* C31: in every sequence of speed, door-status and config events handled
\* one at a time, Lock and Unlock commands strictly alternate: a Lock is
\* never published while lockedState is already Locked and an Unlock never
\* while lockedState is already Unlocked.
C31_CommandsAlternate ==
    [][/\ ~NoLock(out') => locked_state # "locked"
       /\ CountOf(UnlockCmd, out') > 0 => locked_state # "unlocked"]_vars

\* C32: no Lock command is published in a step in which the controller's
\* recorded anyDoorOpen is true: the speed handler and the door handler
\* publish a Lock only when the latest door aggregate the controller knows,
\* the one of the event being handled included, says all doors are closed.
C32_NoLockWhileDoorRecordedOpen ==
    ~NoLock(out) => ~any_door_open

\* The deferred Lock: a doors-closed event handled at a speed above
\* LOCK_ABOVE_KPH has just published the Lock.
C32_Witness ==
    /\ ev.kind = "door" /\ ev.payload = "closed" /\ ev.live > LOCK_ABOVE_KPH
    /\ out = <<LockCmd>>
    /\ ~any_door_open /\ locked_state = "locked"

\* ---------------------------------------------------------------------
\* Claims checked under SpecLive: the Lock is eventually published.

\* A speed above LOCK_ABOVE_KPH has just been published to the subscribers.
AbovePublished == ev.kind = "vehicle" /\ ev.speed > LOCK_ABOVE_KPH

\* C33: if AutoLock is enabled (also after having been re-enabled), the
\* door aggregate reports all doors closed, and speed samples above
\* LOCK_ABOVE_KPH keep being delivered, then a Lock command is eventually
\* published and lockedState becomes Locked; and a pending lock is executed
\* by the doors-closed event itself when the live speed is above
\* LOCK_ABOVE_KPH.
C33_EventuallyLocks ==
    /\ (<>[](enabled /\ ~any_door_open) /\ []<>AbovePublished)
         => /\ <>(~NoLock(out) /\ locked_state = "locked")
            /\ []<>(locked_state = "locked")
    /\ [][(/\ ev'.kind = "door" /\ ev'.payload = "closed"
           /\ ev'.live > LOCK_ABOVE_KPH /\ pending_lock)
            => out' = <<LockCmd>> /\ locked_state' = "locked"]_vars

\* A controller that a config command enabled (the store, absent at the
\* start, holds true) has published the Lock on a speed sample above
\* LOCK_ABOVE_KPH, with the doors recorded closed.
C33_Witness ==
    /\ stateFile = "true" /\ enabled /\ ~any_door_open
    /\ ev.kind = "speed" /\ ev.speed > LOCK_ABOVE_KPH
    /\ out = <<LockCmd>> /\ locked_state = "locked"

\* ---------------------------------------------------------------------
\* Claims checked under SpecAwait: the handlers interleaved at their awaits.

\* C34: if the speed handler and the door-status handler of one controller
\* interleave at their await points (the live speed read and the publish
\* calls), a pending lock still results in a single Lock command: two Lock
\* commands are never published for the same doors-closed transition.
C34_SingleLockPerClose ==
    close_locks <= 1

\* ---------------------------------------------------------------------
\* Claims checked under SpecThreads: _set_child_mode called concurrently.

\* C37: when the MQTT message thread and the presence-detector loop call
\* set_child_mode on the same controller concurrently, each change of the
\* enabled flag still emits exactly one activated/deactivated event and at
\* most one AutoLock enable message: two child_mode_activated events are
\* never emitted without a child_mode_deactivated between them.
C37_OneEventPerChange ==
    [][Named("child_mode_activated", cout') # {}
         => /\ last_mode_event # "child_mode_activated"
            /\ CountOf(AutoLockEnable, cout') <= 1]_vars

\* ---------------------------------------------------------------------
\* Claims checked under SpecThreshold: the effective lock threshold.

\* C39: get_lock_threshold_kph(base) returns child_lock_threshold_kph
\* whenever child mode is enabled, returns base when child mode is disabled
\* and base is non-zero, and returns normal_lock_threshold_kph when child
\* mode is disabled and base is zero; the call changes no state and emits no
\* event.
C39_EffectiveThreshold ==
    [][cev'.kind = "handle_speed"
         => /\ cm_enabled => cev'.threshold = cm_child_threshold
            /\ (~cm_enabled /\ cev'.base # 0) => cev'.threshold = cev'.base
            /\ (~cm_enabled /\ cev'.base = 0)
                 => cev'.threshold = normal_lock_threshold_kph
            /\ UNCHANGED <<cm_enabled, cm_child_threshold, child_mode_enabled,
                           snapVars, cm_last_event, last_mode_event>>
            /\ cm_out' = <<>> /\ cout' = <<>>]_vars

\* With child mode off, after it had been on, the threshold was asked for a
\* base of zero and the normal threshold was returned.
C39_Witness ==
    /\ cev.kind = "handle_speed" /\ cev.base = 0
    /\ ~cm_enabled /\ cm_last_event = "child_mode_deactivated"
    /\ cev.threshold = normal_lock_threshold_kph
    /\ cm_child_threshold # child_lock_threshold_kph

\* ---------------------------------------------------------------------
\* Claims checked under SpecDetector: the presence-detector loop.

\* C40: the presence-detector loop turns child mode on at the first child
\* detection while it is off, and after child mode has been switched on (by
\* the detector or by a set command) it takes 3 consecutive no-child
\* detections, with no child detection in between, before the loop turns
\* child mode off.
C40_ThreeNoChildDetections ==
    [][cev'.kind = "detect"
         => /\ (cev'.enabled /\ ~child_mode_enabled) => child_mode_enabled'
            /\ (child_mode_enabled /\ ~child_mode_enabled')
                 => no_child_run' >= DEBOUNCE_THRESHOLD
            /\ (~cev'.enabled /\ child_mode_enabled
                   /\ no_child_run' >= DEBOUNCE_THRESHOLD)
                 => ~child_mode_enabled']_vars

====
